---- MODULE Spec2Model ----
(***************************************************************************)
(* A model of ionic-cache: CacheService (the TTL / offline policy, the     *)
(* promise based item operations, the bulk operations and the two          *)
(* observable based loaders), the CacheStorageService key adapter and the  *)
(* value codec (saveItem's encoder and decodeRawData).                     *)
(*                                                                         *)
(* Every asynchronous method is split at its awaits: one action for the    *)
(* synchronous part of the call, one action for each continuation.  A      *)
(* call of the storage adapter touches the physical store when its         *)
(* continuation runs.                                                      *)
(***************************************************************************)
EXTENDS Integers, Sequences, FiniteSets, TLC

\* ------------------------------------------------------------------ bounds
\* The clock runs from 0 to MaxSec seconds (in milliseconds).
MaxSec == 2
\* Largest explicit ttl argument, in seconds.
MaxTTL == 1

\* ------------------------------------------------------- program constants
\* ttl: number = 60 * 60
DefaultTTL == 60 * 60
\* expires = new Date().getTime() + ttl * 1000
MsPerSec == 1000

\* The instants the clock can show: each whole second, one millisecond
\* before it and one millisecond after it.
TimePoints == {t \in 0..(MaxSec * MsPerSec + 1) : (t % MsPerSec) \in {0, 1, MsPerSec - 1}}

\* ------------------------------------------------------------ JS values
\* A JavaScript value: js is the result of typeof, cls the name of its
\* constructor, prim the payload of a primitive (or the bytes of a blob or
\* of a data URL), mime the MIME type of a blob or data URL, dataUrl tells a
\* data URL string from any other string, props are the own properties.
NoProps == [n \in {} |-> ""]

JsString(s) == [js |-> "string", cls |-> "String", prim |-> s, mime |-> "",
                dataUrl |-> FALSE, props |-> NoProps]

JsNumber(n) == [js |-> "number", cls |-> "Number", prim |-> n, mime |-> "",
                dataUrl |-> FALSE, props |-> NoProps]

JsNull == [js |-> "object", cls |-> "null", prim |-> "", mime |-> "",
           dataUrl |-> FALSE, props |-> NoProps]

JsObject(c, ps) == [js |-> "object", cls |-> c, prim |-> "", mime |-> "",
                    dataUrl |-> FALSE, props |-> ps]

JsBlob(m, bytes) == [js |-> "object", cls |-> "Blob", prim |-> bytes, mime |-> m,
                     dataUrl |-> FALSE, props |-> NoProps]

JsDataUrl(m, bytes) == [js |-> "string", cls |-> "String", prim |-> bytes, mime |-> m,
                        dataUrl |-> TRUE, props |-> NoProps]

\* The value of a property that is not there, or is there and undefined.
Undefined == "undefined"

Prop(v, n) == IF n \in DOMAIN v.props THEN v.props[n] ELSE Undefined

\* a || b on property values
OrElse(a, b) == IF a \in {Undefined, "", "0", "null", "false", "NaN"} THEN b ELSE a

ResponseFields == {"status", "statusText", "headers", "url", "body"}

\* JSON.stringify, then JSON.parse: a number that is not finite becomes
\* null, an undefined property is dropped (null in an array), an instance of
\* a class comes back as a plain object.
JSONstringify(v) ==
    CASE v.cls = "String" -> [json |-> "string", prim |-> v.prim, mime |-> v.mime,
                              dataUrl |-> v.dataUrl, props |-> NoProps]
      [] v.cls = "Number" ->
            IF v.prim \in {"NaN", "Infinity"}
            THEN [json |-> "null", prim |-> "", mime |-> "", dataUrl |-> FALSE,
                  props |-> NoProps]
            ELSE [json |-> "number", prim |-> v.prim, mime |-> "", dataUrl |-> FALSE,
                  props |-> NoProps]
      [] v.cls = "Array" ->
            [json |-> "array", prim |-> "", mime |-> "", dataUrl |-> FALSE,
             props |-> [n \in DOMAIN v.props |->
                          IF v.props[n] = Undefined THEN "null" ELSE v.props[n]]]
      [] v.cls = "null" -> [json |-> "null", prim |-> "", mime |-> "",
                            dataUrl |-> FALSE, props |-> NoProps]
      [] OTHER ->
            [json |-> "object", prim |-> "", mime |-> "", dataUrl |-> FALSE,
             props |-> [n \in {m \in DOMAIN v.props : v.props[m] # Undefined} |->
                          v.props[n]]]

JSONparse(t) ==
    CASE t.json = "string" -> [js |-> "string", cls |-> "String", prim |-> t.prim,
                               mime |-> t.mime, dataUrl |-> t.dataUrl,
                               props |-> NoProps]
      [] t.json = "number" -> JsNumber(t.prim)
      [] t.json = "array" -> JsObject("Array", t.props)
      [] t.json = "null" -> JsNull
      [] OTHER -> JsObject("Object", t.props)

\* is-http-response.helper.ts
isHttpResponse(data) ==
    /\ data.cls # "null"
    /\ \/ data.cls = "HttpResponse"
       \/ /\ data.js = "object"
          /\ ResponseFields \subseteq DOMAIN data.props

\* is-js-or-response-type.helper.ts (data is a stored item)
isJsOrResponseType(data) ==
    LET jsType == data.type \in {"undefined", "object", "boolean", "number",
                                 "bigint", "string", "symbol", "function"}
        responseType == data.type = "response"
    IN  responseType \/ jsType

\* convert-blob-to-base64.helper.ts: FileReader.readAsDataURL
convertBlobToBase64(blob) == JsDataUrl(blob.mime, blob.prim)

\* fetch(dataUrl).then(r => r.blob())
fetchBlob(dataJson) == JsBlob(dataJson.mime, dataJson.prim)

\* new HttpResponse(init)
HttpResponse(init) == JsObject("HttpResponse", init)

\* decode-raw-data.helper.ts
decodeRawData(data) ==
    LET dataJson == JSONparse(data.value)
    IN  IF isJsOrResponseType(data)
        THEN IF isHttpResponse(dataJson)
             THEN HttpResponse(
                    [n \in ResponseFields |->
                       IF n = "body"
                       THEN OrElse(Prop(dataJson, "_body"), Prop(dataJson, "body"))
                       ELSE Prop(dataJson, n)])
             ELSE dataJson
        ELSE fetchBlob(dataJson)

\* The type tag saveItem / saveBlobItem writes.
typeTag(data) ==
    IF data.cls = "Blob" THEN data.mime
    ELSE IF isHttpResponse(data) THEN "response" ELSE data.js

\* The serialised value saveItem / saveBlobItem writes.
encodeValue(data) ==
    IF data.cls = "Blob" THEN JSONstringify(convertBlobToBase64(data))
    ELSE JSONstringify(data)

\* Deep equality as a test's toEqual sees it: same kind of value, same
\* payload, same own properties; a response object equals a plain object
\* with the same fields.
PlainCls(c) == IF c = "HttpResponse" THEN "Object" ELSE c

DeepEquals(a, b) ==
    /\ a.js = b.js
    /\ PlainCls(a.cls) = PlainCls(b.cls)
    /\ a.prim = b.prim
    /\ a.mime = b.mime
    /\ a.dataUrl = b.dataUrl
    /\ a.props = b.props

\* ------------------------------------------------- CacheStorageService
StartsWith(s, prefix) ==
    /\ Len(s) >= Len(prefix)
    /\ SubSeq(s, 1, Len(prefix)) = prefix

\* Makes sure that the key is prefixed properly.
buildKey(prefix, key) ==
    IF StartsWith(key, prefix) THEN key ELSE prefix \o key

\* Makes sure that the key isn't prefixed.
debuildKey(prefix, key) ==
    IF StartsWith(key, prefix) THEN SubSeq(key, Len(prefix) + 1, Len(key)) ELSE key

\* The test that takes every record under the prefix for a cached item.
isCachedItem_anyRecord(prefix, key, item) == StartsWith(key, prefix)

\* item && item.expires && item.type && key.startsWith(keyPrefix)
isCachedItem(prefix, key, item) ==
    /\ item.expires # 0
    /\ item.type # ""
    /\ StartsWith(key, prefix)

\* A stored record, and the record with the caller's key attached.
NoValue == JSONstringify(JsNull)

NoItem == [key |-> <<>>, value |-> NoValue, expires |-> 0, type |-> "", groupKey |-> ""]

Envelope(item) == [value |-> item.value, expires |-> item.expires,
                   type |-> item.type, groupKey |-> item.groupKey]

WithKey(key, val) == [key |-> key, value |-> val.value, expires |-> val.expires,
                      type |-> val.type, groupKey |-> val.groupKey]

\* storage.set / storage.remove on the physical store
storageSet(st, k, val) == [x \in DOMAIN st \cup {k} |-> IF x = k THEN val ELSE st[x]]

storageRemove(st, k) == [x \in DOMAIN st \ {k} |-> st[x]]

\* CacheStorageService.get: Object.assign({ key }, value) or null
adapterFound(st, prefix, key) == buildKey(prefix, key) \in DOMAIN st

adapterGet(st, prefix, key) == WithKey(key, st[buildKey(prefix, key)])

\* CacheStorageService.all
adapterAll(st, prefix) ==
    {WithKey(debuildKey(prefix, k), st[k]) :
        k \in {x \in DOMAIN st : isCachedItem(prefix, x, st[x])}}

\* new RegExp(`^${pattern.split('*').join('.*')}$`).test(key): "*" stands
\* for ".*"; every other character goes into the regular expression as it
\* is, so "." matches any one character.
RECURSIVE regexTest(_, _)
regexTest(pattern, key) ==
    IF pattern = <<>> THEN key = <<>>
    ELSE IF Head(pattern) = "*"
         THEN \E i \in 0..Len(key) : regexTest(Tail(pattern), SubSeq(key, i + 1, Len(key)))
         ELSE /\ key # <<>>
              /\ Head(pattern) \in {".", Head(key)}
              /\ regexTest(Tail(pattern), Tail(key))

\* ------------------------------------------------------------------ state
VARIABLES
    ttl,                \* CacheService.ttl (seconds)
    cacheEnabled,       \* CacheService.cacheEnabled
    invalidateOffline,  \* CacheService.invalidateOffline
    keyPrefix,          \* config.keyPrefix
    storage,            \* the Ionic Storage records, by physical key
    online,             \* navigator.onLine
    now,                \* new Date().getTime()
    loadCachePc,        \* the constructor's loadCache(): "create", "ready", "failed"
    createCalls,        \* how often cacheStorage.create() was called
    written,            \* per physical key: when, with which ttl and from which
                        \* data it was saved
    hist,               \* what the caller has done with the two switches
    proc,               \* the calls in progress, one per caller
    stream,             \* per caller: the observable a loader returned to it
    bg                  \* the saveItem calls a loader started and did not await

vars == <<ttl, cacheEnabled, invalidateOffline, keyPrefix, storage, online, now,
          loadCachePc, createCalls, written, hist, proc, stream, bg>>

\* The state of the two loaders.
obs == <<stream, bg>>

\* An omitted optional argument is <<>>, a given one is <<x>>.
Omitted == <<>>

ArgOr(arg, default) == IF arg = Omitted THEN default ELSE arg[1]

\* When (at), with which ttl, from which data, through which instance
\* (by: its key prefix) and under which caller key saveItem made an entry.
NoStamp == [at |-> 0, ttl |-> 0, data |-> JsNull, by |-> <<>>, key |-> <<>>]

\* A caller that has no call in progress.  op is the method called, pc the
\* await it is suspended at, gate the value of cacheEnabled when it was
\* called, touched whether it has called the storage adapter, fcalls how
\* often it has invoked the caller's factory, res / out / raw / items /
\* exists its result; checkedAt, onlineAt, flagAt, argAt and read are what
\* getItem saw when it decided about expiry (argAt: the last argument of
\* setOfflineInvalidate, "never" if it was not called); ignoreArg is the
\* ignoreOnlineStatus argument of clearExpired, which also sets onlineAt,
\* and checkedAt is also the time a bulk operation got the items of all().
IdleProc ==
    [op |-> "", pc |-> "idle", key |-> <<>>, data |-> JsNull,
     groupArg |-> Omitted, ttlArg |-> Omitted,
     item |-> NoItem, stamp |-> NoStamp, pend |-> {}, items |-> {},
     gate |-> TRUE, touched |-> FALSE, fcalls |-> 0,
     res |-> "", out |-> JsNull, raw |-> NoItem, exists |-> FALSE,
     found |-> FALSE, read |-> NoStamp, ignoreArg |-> FALSE,
     checkedAt |-> 0, onlineAt |-> TRUE, flagAt |-> FALSE, argAt |-> "never"]

Idle(p) == proc[p].pc = "idle"

\* The caller's source observable: the values one execution of it emits,
\* how it ends ("complete", "error", or "never"), and whether it does all
\* of that synchronously inside subscribe().
NoSource == [sync |-> TRUE, vals |-> <<>>, end |-> "complete"]

\* What a loader has set up for its caller.  ret is what the call
\* returned ("source": the caller's observable itself, "deferred": the
\* defer() of loadFromObservable, "subject": the Subject of
\* loadFromDelayedObservable); connected, pos, execs and subs are the
\* share()d source: whether an execution of the source is running, how
\* many values it has emitted, how many executions were started, and who
\* is subscribed; subject and emitted are the Subject's state and what was
\* pushed into it; subscribed, received and ended are the consumer of the
\* returned observable; saves counts the saveItem calls that were issued,
\* saveThrew tells that one of them threw, ttlGiven is the ttl argument
\* loadFromDelayedObservable was called with.
IdleStream ==
    [ret |-> "", src |-> NoSource, delayType |-> "",
     connected |-> FALSE, pos |-> 0, execs |-> 0, subs |-> {},
     subject |-> "", emitted |-> <<>>,
     subscribed |-> FALSE, received |-> <<>>, ended |-> "",
     raw |-> "", saves |-> 0, saveThrew |-> FALSE, ttlGiven |-> Omitted]

\* The call p starts: everything left from the previous call is dropped.
Start(p, name) == [IdleProc EXCEPT !.op = name, !.gate = cacheEnabled]

\* throw new Error(errorMessages.xxx)
Throw(call, err) == [call EXCEPT !.pc = "done", !.res = err]

Resolve(call) == [call EXCEPT !.pc = "done", !.res = "ok"]

notEnabled == "Cache is not enabled."
expired == "Cache entry already expired: "
notFound == "No such key: "
browserOffline == "No entries were deleted, because browser is offline."

\* ------------------------------------------------------------ environment
\* Time passes.
Tick(t) ==
    /\ t > now
    /\ now' = t
    /\ UNCHANGED <<ttl, cacheEnabled, invalidateOffline, keyPrefix, storage, online,
                   loadCachePc, createCalls, written, hist, proc, obs>>

\* navigator.onLine changes.
SetOnline(b) ==
    /\ online # b
    /\ online' = b
    /\ UNCHANGED <<ttl, cacheEnabled, invalidateOffline, keyPrefix, storage, now,
                   loadCachePc, createCalls, written, hist, proc, obs>>

\* The caller has taken the result of its call.
Return(p) ==
    /\ proc[p].pc = "done"
    /\ proc' = [proc EXCEPT ![p] = IdleProc]
    /\ stream' = [stream EXCEPT ![p] = IdleStream]
    /\ UNCHANGED <<ttl, cacheEnabled, invalidateOffline, keyPrefix, storage, online,
                   now, loadCachePc, createCalls, written, hist, bg>>

\* ------------------------------------------- configuration and lifecycle
\* loadCache(): await this.cacheStorage.create() resolves.
loadCache_resolve ==
    /\ loadCachePc = "create"
    /\ loadCachePc' = "ready"
    /\ UNCHANGED <<ttl, cacheEnabled, invalidateOffline, keyPrefix, storage, online,
                   now, createCalls, written, hist, proc, obs>>

loadCache_reject_enabling ==
    /\ loadCachePc = "create"
    /\ loadCachePc' = "failed"
    /\ cacheEnabled' = TRUE
    /\ UNCHANGED <<ttl, invalidateOffline, keyPrefix, storage, online,
                   now, createCalls, written, hist, proc, obs>>

\* loadCache(): create() rejects: catch (error) { this.cacheEnabled = false }
loadCache_reject ==
    /\ loadCachePc = "create"
    /\ loadCachePc' = "failed"
    /\ cacheEnabled' = FALSE
    /\ UNCHANGED <<ttl, invalidateOffline, keyPrefix, storage, online,
                   now, createCalls, written, hist, proc, obs>>

\* hist after enableCache(enable): off while the caller has the cache
\* switched off, reenabled once the caller has switched it on again.
histEnable(enable) ==
    [hist EXCEPT !.off = ~enable,
                 !.reenabled = @ \/ (enable /\ hist.off)]

enableCache_recreating(enable) ==
    /\ cacheEnabled' = enable
    /\ createCalls' = IF enable /\ ~cacheEnabled THEN createCalls + 1 ELSE createCalls
    /\ loadCachePc' = IF enable /\ ~cacheEnabled THEN "create" ELSE loadCachePc
    /\ hist' = histEnable(enable)
    /\ UNCHANGED <<ttl, invalidateOffline, keyPrefix, storage, online, now,
                   written, proc, obs>>

enableCache(enable) ==
    /\ cacheEnabled' = enable
    /\ hist' = histEnable(enable)
    /\ UNCHANGED <<ttl, invalidateOffline, keyPrefix, storage, online, now,
                   loadCachePc, createCalls, written, proc, obs>>

setOfflineInvalidate(offlineInvalidate) ==
    /\ invalidateOffline' = ~offlineInvalidate
    /\ hist' = [hist EXCEPT !.offlineArg = IF offlineInvalidate THEN "true" ELSE "false"]
    /\ UNCHANGED <<ttl, cacheEnabled, keyPrefix, storage, online, now,
                   loadCachePc, createCalls, written, proc, obs>>

setDefaultTTL(t) ==
    /\ ttl' = t
    /\ UNCHANGED <<cacheEnabled, invalidateOffline, keyPrefix, storage, online, now,
                   loadCachePc, createCalls, written, hist, proc, obs>>

\* isOnline(): navigator.onLine
isOnline == online

\* ------------------------------------------------------- item operations
\* What proc changes, and nothing else.
OnlyProc == UNCHANGED <<ttl, cacheEnabled, invalidateOffline, keyPrefix, storage,
                        online, now, loadCachePc, createCalls, written, hist, obs>>

\* saveItem that takes the ttl for milliseconds.
saveItemSync_millis(call, key, data, groupArg, ttlArg) ==
    LET t == ArgOr(ttlArg, ttl)
        expires == now + t
        groupKey == ArgOr(groupArg, "none")
    IN  IF ~cacheEnabled THEN Throw(call, notEnabled)
        ELSE [call EXCEPT !.pc = "set", !.key = key, !.data = data, !.touched = TRUE,
                          !.stamp = [at |-> now, ttl |-> t, data |-> data, by |-> keyPrefix,
                                     key |-> key],
                          !.item = [key |-> key, value |-> encodeValue(data),
                                    expires |-> expires, type |-> typeTag(data),
                                    groupKey |-> groupKey]]

\* The synchronous part of saveItem(key, data, groupKey = 'none',
\* ttl = this.ttl), run by the call `call`: the gate, then either
\* saveBlobItem up to its await of convertBlobToBase64 or the envelope and
\* cacheStorage.set.
saveItemSync(call, key, data, groupArg, ttlArg) ==
    LET t == ArgOr(ttlArg, ttl)
        expires == now + t * MsPerSec
        groupKey == ArgOr(groupArg, "none")
    IN  IF ~cacheEnabled THEN Throw(call, notEnabled)
        ELSE IF data.cls = "Blob"
        THEN [call EXCEPT !.pc = "convertBlob", !.key = key, !.data = data,
                          !.stamp = [at |-> now, ttl |-> t, data |-> data, by |-> keyPrefix,
                                     key |-> key],
                          !.item = [key |-> key, value |-> NoValue, expires |-> expires,
                                    type |-> typeTag(data), groupKey |-> groupKey]]
        ELSE [call EXCEPT !.pc = "set", !.key = key, !.data = data, !.touched = TRUE,
                          !.stamp = [at |-> now, ttl |-> t, data |-> data, by |-> keyPrefix,
                                     key |-> key],
                          !.item = [key |-> key, value |-> encodeValue(data),
                                    expires |-> expires, type |-> typeTag(data),
                                    groupKey |-> groupKey]]

\* The synchronous part of removeItem(key) for each key of keys, as
\* Promise.all(keys.map(key => this.removeItem(key))) runs it.
removeAllSync(call, keys) ==
    IF keys = {} THEN Resolve(call)
    ELSE IF ~cacheEnabled THEN Throw(call, notEnabled)
    ELSE [call EXCEPT !.pc = "remove", !.touched = TRUE, !.pend = keys]

saveItem(p, key, data, groupArg, ttlArg) ==
    /\ Idle(p)
    /\ proc' = [proc EXCEPT ![p] =
                  saveItemSync([Start(p, "saveItem") EXCEPT !.groupArg = groupArg,
                                                            !.ttlArg = ttlArg],
                               key, data, groupArg, ttlArg)]
    /\ OnlyProc

\* saveBlobItem: await convertBlobToBase64(blob) resolves, then
\* cacheStorage.set is called.
saveBlobItem_resolve(p) ==
    /\ proc[p].pc = "convertBlob"
    /\ proc' = [proc EXCEPT ![p] =
                  [@ EXCEPT !.pc = "set", !.touched = TRUE,
                            !.item = [@ EXCEPT !.value = encodeValue(proc[p].data)]]]
    /\ OnlyProc

\* saveBlobItem: the FileReader fails: catch (error) { throw new Error(error) }
saveBlobItem_reject(p) ==
    /\ proc[p].pc = "convertBlob"
    /\ proc' = [proc EXCEPT ![p] = Throw(@, "blob conversion failed")]
    /\ OnlyProc

\* cacheStorage.set that keeps the expires of the record it overwrites.
cacheStorage_set_merging(p) ==
    /\ proc[p].pc = "set"
    /\ LET k == buildKey(keyPrefix, proc[p].key)
           new == Envelope(proc[p].item)
       IN  /\ storage' = storageSet(storage, k,
                            IF k \in DOMAIN storage
                            THEN [new EXCEPT !.expires = storage[k].expires] ELSE new)
           /\ written' = storageSet(written, k, proc[p].stamp)
    /\ proc' = [proc EXCEPT ![p] =
                  [Resolve(@) EXCEPT !.out = IF proc[p].op = "getOrSetItem"
                                            THEN proc[p].data ELSE JsNull]]
    /\ UNCHANGED <<ttl, cacheEnabled, invalidateOffline, keyPrefix, online, now,
                   loadCachePc, createCalls, hist, obs>>

\* cacheStorage.set(key, envelope) reaches the store and resolves.
cacheStorage_set(p) ==
    /\ proc[p].pc = "set"
    /\ LET k == buildKey(keyPrefix, proc[p].key)
       IN  /\ storage' = storageSet(storage, k, Envelope(proc[p].item))
           /\ written' = storageSet(written, k, proc[p].stamp)
    /\ proc' = [proc EXCEPT ![p] =
                  [Resolve(@) EXCEPT !.out = IF proc[p].op = "getOrSetItem"
                                            THEN proc[p].data ELSE JsNull]]
    /\ UNCHANGED <<ttl, cacheEnabled, invalidateOffline, keyPrefix, online, now,
                   loadCachePc, createCalls, hist, obs>>

removeItem(p, key) ==
    /\ Idle(p)
    /\ proc' = [proc EXCEPT ![p] =
                  IF ~cacheEnabled THEN Throw(Start(p, "removeItem"), notEnabled)
                  ELSE [Start(p, "removeItem") EXCEPT !.pc = "remove", !.key = key,
                                                      !.touched = TRUE, !.pend = {key}]]
    /\ OnlyProc

\* One cacheStorage.remove(key) reaches the store; the call resolves with
\* the last of them.
cacheStorage_remove(p, key) ==
    /\ proc[p].pc = "remove"
    /\ key \in proc[p].pend
    /\ LET k == buildKey(keyPrefix, key)
       IN  /\ storage' = storageRemove(storage, k)
           /\ written' = storageRemove(written, k)
    /\ proc' = [proc EXCEPT ![p] =
                  IF @.pend = {key} THEN [Resolve(@) EXCEPT !.pend = {}]
                  ELSE [@ EXCEPT !.pend = @ \ {key}]]
    /\ UNCHANGED <<ttl, cacheEnabled, invalidateOffline, keyPrefix, online, now,
                   loadCachePc, createCalls, hist, obs>>

removeItems(p, pattern) ==
    /\ Idle(p)
    /\ proc' = [proc EXCEPT ![p] =
                  IF ~cacheEnabled THEN Throw(Start(p, "removeItems"), notEnabled)
                  ELSE [Start(p, "removeItems") EXCEPT !.pc = "all", !.key = pattern,
                                                       !.touched = TRUE]]
    /\ OnlyProc

getRawItem(p, key) ==
    /\ Idle(p)
    /\ proc' = [proc EXCEPT ![p] =
                  IF ~cacheEnabled THEN Throw(Start(p, "getRawItem"), notEnabled)
                  ELSE [Start(p, "getRawItem") EXCEPT !.pc = "get", !.key = key,
                                                      !.touched = TRUE]]
    /\ OnlyProc

getRawItems(p) ==
    /\ Idle(p)
    /\ proc' = [proc EXCEPT ![p] =
                  [Start(p, "getRawItems") EXCEPT !.pc = "all", !.touched = TRUE]]
    /\ OnlyProc

itemExists(p, key) ==
    /\ Idle(p)
    /\ proc' = [proc EXCEPT ![p] =
                  IF ~cacheEnabled THEN Throw(Start(p, "itemExists"), notEnabled)
                  ELSE [Start(p, "itemExists") EXCEPT !.pc = "exists", !.key = key,
                                                      !.touched = TRUE]]
    /\ OnlyProc

\* cacheStorage.exists(key) resolves.
cacheStorage_exists(p) ==
    /\ proc[p].pc = "exists"
    /\ proc' = [proc EXCEPT ![p] =
                  [Resolve(@) EXCEPT
                     !.exists = adapterFound(storage, keyPrefix, proc[p].key)]]
    /\ OnlyProc

getItem(p, key) ==
    /\ Idle(p)
    /\ proc' = [proc EXCEPT ![p] =
                  IF ~cacheEnabled THEN Throw(Start(p, "getItem"), notEnabled)
                  ELSE [Start(p, "getItem") EXCEPT !.pc = "get", !.key = key,
                                                   !.touched = TRUE]]
    /\ OnlyProc

\* The expiry test with <= for <.
isExpired_inclusive(data, time, flag, on) ==
    /\ data.expires <= time
    /\ (flag \/ on)

\* The expiry test without the stored flag.
isExpired_noflag(data, time, flag, on) ==
    /\ data.expires < time
    /\ on

\* The expiry test that never finds an entry expired.
isExpired_never(data, time, flag, on) == FALSE

\* The expiry test of getItem: data.expires < new Date().getTime() &&
\* (this.invalidateOffline || this.isOnline())
isExpired(data, time, flag, on) ==
    /\ data.expires < time
    /\ (flag \/ on)

\* getItem after getRawItem has answered: not found, expired, or decoded.
getItemAnswer(call) ==
    LET k == buildKey(keyPrefix, call.key)
        seen == [call EXCEPT !.checkedAt = now, !.onlineAt = isOnline,
                             !.flagAt = invalidateOffline,
                             !.argAt = hist.offlineArg]
    IN  IF ~adapterFound(storage, keyPrefix, call.key) THEN Throw(seen, notFound)
        ELSE LET data == adapterGet(storage, keyPrefix, call.key)
                 got == [seen EXCEPT !.found = TRUE, !.raw = data, !.read = written[k]]
             IN  IF isExpired(data, now, invalidateOffline, isOnline)
                 THEN Throw(got, expired)
                 ELSE [Resolve(got) EXCEPT !.out = decodeRawData(data)]

\* getOrSetItem after its getItem has settled: catch (error) { factory() }
getOrSetAnswer(call) ==
    IF call.res = "ok" THEN call
    ELSE [call EXCEPT !.pc = "factory", !.fcalls = @ + 1]

\* cacheStorage.get where getRawItem applies getItem's expiry test.
cacheStorage_get_expiring(p) ==
    /\ proc[p].pc = "get"
    /\ proc' = [proc EXCEPT ![p] =
                  CASE @.op = "getOrSetItem" -> getOrSetAnswer(getItemAnswer(@))
                    [] OTHER -> getItemAnswer(@)]
    /\ OnlyProc

\* cacheStorage.get where a getItem that finds the entry expired evicts it.
cacheStorage_get_evicting(p) ==
    /\ proc[p].pc = "get"
    /\ proc' = [proc EXCEPT ![p] =
                  CASE @.op = "getRawItem" ->
                         IF adapterFound(storage, keyPrefix, @.key)
                         THEN [Resolve(@) EXCEPT
                                 !.found = TRUE,
                                 !.raw = adapterGet(storage, keyPrefix, proc[p].key)]
                         ELSE Throw(@, notFound)
                    [] @.op = "getOrSetItem" -> getOrSetAnswer(getItemAnswer(@))
                    [] OTHER -> getItemAnswer(@)]
    /\ LET k == buildKey(keyPrefix, proc[p].key)
           gone == proc[p].op = "getItem" /\ getItemAnswer(proc[p]).res = expired
       IN  /\ storage' = IF gone THEN storageRemove(storage, k) ELSE storage
           /\ written' = IF gone THEN storageRemove(written, k) ELSE written
    /\ UNCHANGED <<ttl, cacheEnabled, invalidateOffline, keyPrefix, online, now,
                   loadCachePc, createCalls, hist, obs>>

\* cacheStorage.get(key) resolves and the caller's continuation runs.
cacheStorage_get(p) ==
    /\ proc[p].pc = "get"
    /\ proc' = [proc EXCEPT ![p] =
                  CASE @.op = "getRawItem" ->
                         IF adapterFound(storage, keyPrefix, @.key)
                         THEN [Resolve(@) EXCEPT
                                 !.found = TRUE,
                                 !.raw = adapterGet(storage, keyPrefix, proc[p].key)]
                         ELSE Throw(@, notFound)
                    [] @.op = "getOrSetItem" -> getOrSetAnswer(getItemAnswer(@))
                    [] OTHER -> getItemAnswer(@)]
    /\ OnlyProc

getOrSetItem(p, key, groupArg, ttlArg) ==
    /\ Idle(p)
    /\ proc' = [proc EXCEPT ![p] =
                  LET call == [Start(p, "getOrSetItem") EXCEPT
                                 !.key = key, !.groupArg = groupArg, !.ttlArg = ttlArg]
                  IN  IF ~cacheEnabled THEN getOrSetAnswer(Throw(call, notEnabled))
                      ELSE [call EXCEPT !.pc = "get", !.touched = TRUE]]
    /\ OnlyProc

\* The caller's factory resolves with val: await this.saveItem(key, val, ...)
factory_resolve(p, val) ==
    /\ proc[p].pc = "factory"
    /\ proc' = [proc EXCEPT ![p] =
                  saveItemSync([@ EXCEPT !.res = ""], @.key, val, @.groupArg, @.ttlArg)]
    /\ OnlyProc

\* The caller's factory rejects: the failure goes to the caller.
factory_reject(p) ==
    /\ proc[p].pc = "factory"
    /\ proc' = [proc EXCEPT ![p] = Throw(@, "factory failed")]
    /\ OnlyProc

\* ------------------------------------------------------- bulk operations
clearAll(p) ==
    /\ Idle(p)
    /\ proc' = [proc EXCEPT ![p] =
                  IF ~cacheEnabled THEN Throw(Start(p, "clearAll"), notEnabled)
                  ELSE [Start(p, "clearAll") EXCEPT !.pc = "all", !.touched = TRUE]]
    /\ OnlyProc

\* clearExpired that refuses whenever the device is offline.
clearExpired_strict(p, ignoreOnlineStatus) ==
    /\ Idle(p)
    /\ proc' = [proc EXCEPT ![p] =
                  IF ~cacheEnabled THEN Throw(Start(p, "clearExpired"), notEnabled)
                  ELSE IF ~isOnline
                  THEN Throw([Start(p, "clearExpired") EXCEPT
                                !.ignoreArg = ignoreOnlineStatus, !.onlineAt = isOnline],
                             browserOffline)
                  ELSE [Start(p, "clearExpired") EXCEPT !.pc = "all", !.touched = TRUE,
                                                        !.ignoreArg = ignoreOnlineStatus,
                                                        !.onlineAt = isOnline]]
    /\ OnlyProc

clearExpired(p, ignoreOnlineStatus) ==
    /\ Idle(p)
    /\ proc' = [proc EXCEPT ![p] =
                  IF ~cacheEnabled THEN Throw(Start(p, "clearExpired"), notEnabled)
                  ELSE IF ~isOnline /\ ~ignoreOnlineStatus
                  THEN Throw([Start(p, "clearExpired") EXCEPT !.onlineAt = isOnline],
                             browserOffline)
                  ELSE [Start(p, "clearExpired") EXCEPT !.pc = "all", !.touched = TRUE,
                                                        !.ignoreArg = ignoreOnlineStatus,
                                                        !.onlineAt = isOnline]]
    /\ OnlyProc

clearGroup(p, groupKey) ==
    /\ Idle(p)
    /\ proc' = [proc EXCEPT ![p] =
                  IF ~cacheEnabled THEN Throw(Start(p, "clearGroup"), notEnabled)
                  ELSE [Start(p, "clearGroup") EXCEPT !.pc = "all", !.touched = TRUE,
                                                      !.groupArg = <<groupKey>>]]
    /\ OnlyProc

\* The keys a bulk operation removes, out of the items all() returned.
selectKeys(call, items) ==
    CASE call.op = "removeItems" ->
           {i.key : i \in {j \in items : j.key # <<>> /\ regexTest(call.key, j.key)}}
      [] call.op = "clearExpired" -> {i.key : i \in {j \in items : j.expires < now}}
      [] call.op = "clearGroup" ->
           {i.key : i \in {j \in items : j.groupKey = call.groupArg[1]}}
      [] OTHER -> {i.key : i \in items}

\* cacheStorage.all() resolves and the caller's continuation runs.
cacheStorage_all(p) ==
    /\ proc[p].pc = "all"
    /\ proc' = [proc EXCEPT ![p] =
                  LET items == adapterAll(storage, keyPrefix)
                  IN  IF @.op = "getRawItems" THEN [Resolve(@) EXCEPT !.items = items]
                      ELSE removeAllSync([@ EXCEPT !.checkedAt = now],
                                         selectKeys(@, items))]
    /\ OnlyProc

\* --------------------------------------------------------- the two loaders
\* What a step of a loader changes, and nothing else.
OnlyLoader == UNCHANGED <<ttl, cacheEnabled, invalidateOffline, keyPrefix, storage,
                          online, now, loadCachePc, createCalls, written, hist>>

\* The call of caller p together with its stream and the saves in progress.
Bundle(p) == [call |-> proc[p], s |-> stream[p], bg |-> bg]

Commit(p, b) ==
    /\ proc' = [proc EXCEPT ![p] = b.call]
    /\ stream' = [stream EXCEPT ![p] = b.s]
    /\ bg' = b.bg

Emission(tag, v) == [from |-> tag, val |-> v]

\* this.saveItem(key, res, groupKey, ttl) inside a subscriber, not awaited:
\* it throws while the cache is disabled, else the write is in progress.
issueSave(b, v) ==
    LET c == saveItemSync([IdleProc EXCEPT !.op = "saveItem", !.gate = cacheEnabled],
                          b.call.key, v, b.call.groupArg, b.call.ttlArg)
    IN  IF c.pc = "done" THEN [b EXCEPT !.s.saveThrew = TRUE]
        ELSE [b EXCEPT !.bg = @ \cup {c}, !.s.saves = @ + 1,
                       !.call.touched = @ \/ c.touched]

\* A Subject that hands on only the first value pushed into it.
subjectNext_once(b, tag, v) ==
    IF b.s.subject # "open" \/ b.s.emitted # <<>> THEN b
    ELSE [b EXCEPT !.s.emitted = Append(@, Emission(tag, v)),
                   !.s.received = IF b.s.subscribed
                                  THEN Append(@, Emission(tag, v)) ELSE @]

\* observableSubject.next(v): ignored once the Subject has stopped, seen by
\* the consumer only if it has subscribed.
subjectNext(b, tag, v) ==
    IF b.s.subject # "open" THEN b
    ELSE [b EXCEPT !.s.emitted = Append(@, Emission(tag, v)),
                   !.s.received = IF b.s.subscribed
                                  THEN Append(@, Emission(tag, v)) ELSE @]

\* A Subject whose error takes back what it had emitted.
subjectEnd_retracting(b, kind) ==
    IF b.s.subject # "open" THEN b
    ELSE IF kind = "error"
    THEN [b EXCEPT !.s.subject = kind, !.s.emitted = <<>>, !.s.received = <<>>,
                   !.s.ended = IF b.s.subscribed THEN kind ELSE @]
    ELSE [b EXCEPT !.s.subject = kind,
                   !.s.ended = IF b.s.subscribed THEN kind ELSE @]

\* observableSubject.complete() / observableSubject.error(err)
subjectEnd(b, kind) ==
    IF b.s.subject # "open" THEN b
    ELSE [b EXCEPT !.s.subject = kind,
                   !.s.ended = IF b.s.subscribed THEN kind ELSE @]

\* The next handlers, with subscribeOrigin's handler not saving the value.
Deliver_unsaved(b, sub, v, drop) ==
    LET left == IF drop THEN [b EXCEPT !.s.saveThrew = TRUE, !.s.subs = @ \ {sub}]
                ELSE [b EXCEPT !.s.saveThrew = TRUE]
    IN  CASE sub = "saver" -> IF cacheEnabled THEN issueSave(b, v) ELSE left
          [] sub = "forward" ->
                [b EXCEPT !.s.received = Append(@, Emission("source", v))]
          [] sub = "origin" ->
                IF cacheEnabled
                THEN subjectEnd(subjectNext(b, "source", v), "complete")
                ELSE left

\* The next handlers, with subscribeOrigin's handler leaving the Subject
\* open after it has handed a value on.
Deliver_relaying(b, sub, v, drop) ==
    LET left == IF drop THEN [b EXCEPT !.s.saveThrew = TRUE, !.s.subs = @ \ {sub}]
                ELSE [b EXCEPT !.s.saveThrew = TRUE]
    IN  CASE sub = "saver" -> IF cacheEnabled THEN issueSave(b, v) ELSE left
          [] sub = "forward" ->
                [b EXCEPT !.s.received = Append(@, Emission("source", v))]
          [] sub = "origin" ->
                IF cacheEnabled
                THEN subjectNext(issueSave(b, v), "source", v)
                ELSE left

\* The next handler of subscriber sub gets v.  "saver" is the subscriber
\* of loadFromObservable's catchError, "forward" the consumer behind the
\* observable it returns, "origin" the subscriber of subscribeOrigin.  A
\* handler that throws stops there; drop tells whether RxJS then
\* unsubscribes it (version 6 does, version 7 does not).
Deliver(b, sub, v, drop) ==
    LET left == IF drop THEN [b EXCEPT !.s.saveThrew = TRUE, !.s.subs = @ \ {sub}]
                ELSE [b EXCEPT !.s.saveThrew = TRUE]
    IN  CASE sub = "saver" -> IF cacheEnabled THEN issueSave(b, v) ELSE left
          [] sub = "forward" ->
                [b EXCEPT !.s.received = Append(@, Emission("source", v))]
          [] sub = "origin" ->
                IF cacheEnabled
                THEN subjectEnd(subjectNext(issueSave(b, v), "source", v), "complete")
                ELSE left

\* The end of the source handed on with an error turned into a completion.
Finish_completing(b, sub) ==
    CASE sub = "saver" -> b
      [] sub = "forward" -> [b EXCEPT !.s.ended = "complete"]
      [] sub = "origin" -> subjectEnd(b, "complete")

\* The error or complete handler of subscriber sub runs.
Finish(b, sub) ==
    CASE sub = "saver" -> b
      [] sub = "forward" -> [b EXCEPT !.s.ended = b.s.src.end]
      [] sub = "origin" -> subjectEnd(b, b.s.src.end)

Order == <<"saver", "forward", "origin">>

RECURSIVE DeliverAll(_, _, _, _)
\* share() hands v to its subscribers, from the i-th of Order on.
DeliverAll(b, v, i, drop) ==
    IF i > Len(Order) THEN b
    ELSE DeliverAll(IF Order[i] \in b.s.subs THEN Deliver(b, Order[i], v, drop) ELSE b,
                    v, i + 1, drop)

RECURSIVE FinishAll(_, _)
\* share() hands the end of the source to its subscribers and resets.
FinishAll(b, i) ==
    IF i > Len(Order) THEN [b EXCEPT !.s.subs = {}, !.s.connected = FALSE]
    ELSE FinishAll(IF Order[i] \in b.s.subs THEN Finish(b, Order[i]) ELSE b, i + 1)

\* share() unsubscribes from the source when its last subscriber has left.
Settle(b) == IF b.s.subs = {} THEN [b EXCEPT !.s.connected = FALSE] ELSE b

RECURSIVE RunFrom(_, _, _)
\* A synchronous source emits its values from the i-th on, while anyone
\* is subscribed.
RunFrom(b, i, drop) ==
    IF i > Len(b.s.src.vals) \/ b.s.subs = {} THEN b
    ELSE RunFrom([DeliverAll(b, b.s.src.vals[i], 1, drop) EXCEPT !.s.pos = i], i + 1, drop)

\* observable.subscribe(...) on the share()d source: the first subscriber
\* starts an execution of the source, a later one joins it; a synchronous
\* source runs to its end inside the subscribe of the first.
Attach(b, sub, drop) ==
    IF b.s.connected THEN [b EXCEPT !.s.subs = @ \cup {sub}]
    ELSE LET b0 == [b EXCEPT !.s.connected = TRUE, !.s.execs = @ + 1,
                             !.s.pos = 0, !.s.subs = {sub}]
             b1 == RunFrom(b0, 1, drop)
         IN  IF ~b.s.src.sync THEN b0
             ELSE IF b1.s.subs = {} \/ b.s.src.end = "never" THEN Settle(b1)
             ELSE FinishAll(b1, 1)

\* The loader's call is over when what it returned has ended and the
\* source is no longer running.
LoaderPc(b) ==
    LET over == CASE b.s.ret = "subject" -> b.s.subject # "open"
                  [] OTHER -> b.s.ended # ""
    IN  IF over /\ ~b.s.connected THEN [b EXCEPT !.call.pc = "done"] ELSE b

\* loadFromObservable that wraps the source also while the cache is
\* disabled.
loadFromObservable_wrapping(p, key, source, groupArg, ttlArg) ==
    /\ Idle(p)
    /\ proc' = [proc EXCEPT ![p] =
                  [Start(p, "loadFromObservable") EXCEPT
                     !.pc = "deferred", !.key = key,
                     !.groupArg = groupArg, !.ttlArg = ttlArg]]
    /\ stream' = [stream EXCEPT ![p] =
                    [IdleStream EXCEPT !.src = source, !.ret = "deferred"]]
    /\ UNCHANGED bg
    /\ OnlyLoader

\* loadFromObservable(key, observable, groupKey?, ttl?): the source itself
\* while the cache is disabled, else defer(...) over the share()d source.
loadFromObservable(p, key, source, groupArg, ttlArg) ==
    /\ Idle(p)
    /\ proc' = [proc EXCEPT ![p] =
                  [Start(p, "loadFromObservable") EXCEPT
                     !.pc = IF cacheEnabled THEN "deferred" ELSE "done",
                     !.key = key, !.groupArg = groupArg, !.ttlArg = ttlArg]]
    /\ stream' = [stream EXCEPT ![p] =
                    [IdleStream EXCEPT
                       !.src = source,
                       !.ret = IF cacheEnabled THEN "deferred" ELSE "source"]]
    /\ UNCHANGED bg
    /\ OnlyLoader

\* loadFromObservable after getItem has settled, emitting the cached value
\* and then going on to the source.
lfoAnswer_both(b, drop) ==
    LET hit == IF b.call.res = "ok"
               THEN [b EXCEPT !.s.received = <<Emission("cache", b.call.out)>>]
               ELSE b
    IN  LoaderPc(Attach(Attach([hit EXCEPT !.call.pc = "source"],
                               "saver", drop), "forward", drop))

\* loadFromObservable after getItem has settled: from(promise) emits the
\* value and completes, or catchError subscribes the saver to the share()d
\* source and returns it for the consumer.
lfoAnswer(b, drop) ==
    IF b.call.res = "ok"
    THEN [b EXCEPT !.s.received = <<Emission("cache", b.call.out)>>,
                   !.s.ended = "complete"]
    ELSE LoaderPc(Attach(Attach([b EXCEPT !.call.pc = "source"],
                                "saver", drop), "forward", drop))

\* The consumer subscribes to what loadFromObservable returned: defer's
\* factory calls getItem(key), which rejects at once while disabled.
loadFromObservable_subscribe(p, drop) ==
    /\ proc[p].pc = "deferred"
    /\ LET b == [Bundle(p) EXCEPT !.s.subscribed = TRUE]
       IN  Commit(p, IF ~cacheEnabled
                     THEN lfoAnswer([b EXCEPT !.call = Throw(@, notEnabled)], drop)
                     ELSE [b EXCEPT !.call.pc = "lfoGet", !.call.touched = TRUE])
    /\ OnlyLoader

\* cacheStorage.get(key) resolves for the getItem of loadFromObservable.
loadFromObservable_getItem(p, drop) ==
    /\ proc[p].pc = "lfoGet"
    /\ Commit(p, lfoAnswer([Bundle(p) EXCEPT !.call = getItemAnswer(@)], drop))
    /\ OnlyLoader

\* subscribeOrigin() that goes to the source only with delayType 'all' and
\* completes the Subject otherwise.
subscribeOrigin_onlyAll(b, drop) ==
    IF b.s.delayType = "all"
    THEN LoaderPc(Attach([b EXCEPT !.call.pc = "source"], "origin", drop))
    ELSE LoaderPc(subjectEnd(b, "complete"))

\* subscribeOrigin()
subscribeOrigin(b, drop) ==
    LoaderPc(Attach([b EXCEPT !.call.pc = "source"], "origin", drop))

\* loadFromDelayedObservable(key, observable, groupKey?, ttl = this.ttl,
\* delayType = 'expired') without metaKey: the source itself while the
\* cache is disabled, else a Subject, and getItem(key) is called at once.
\* subscribes: the caller subscribes to the result in the same turn.
loadFromDelayedObservable(p, key, source, groupArg, ttlArg, delayArg, subscribes) ==
    /\ Idle(p)
    /\ proc' = [proc EXCEPT ![p] =
                  LET call == [Start(p, "loadFromDelayedObservable") EXCEPT
                                 !.key = key, !.groupArg = groupArg,
                                 !.ttlArg = <<ArgOr(ttlArg, ttl)>>]
                  IN  IF ~cacheEnabled THEN [call EXCEPT !.pc = "done"]
                      ELSE [call EXCEPT !.pc = "lfdoGet", !.touched = TRUE]]
    /\ stream' = [stream EXCEPT ![p] =
                    IF ~cacheEnabled
                    THEN [IdleStream EXCEPT !.src = source, !.ret = "source"]
                    ELSE [IdleStream EXCEPT !.src = source, !.ret = "subject",
                                            !.ttlGiven = ttlArg,
                                            !.delayType = ArgOr(delayArg, "expired"),
                                            !.subject = "open",
                                            !.subscribed = subscribes]]
    /\ UNCHANGED bg
    /\ OnlyLoader

\* cacheStorage.get(key) resolves for the getItem of
\* loadFromDelayedObservable: .then emits the value and completes or, with
\* delayType 'all', goes on to the source; .catch calls getRawItem(key),
\* which rejects at once while disabled.
loadFromDelayedObservable_getItem(p, drop) ==
    /\ proc[p].pc = "lfdoGet"
    /\ LET b == [Bundle(p) EXCEPT !.call = getItemAnswer(@)]
           hit == subjectNext(b, "cache", b.call.out)
       IN  Commit(p, IF b.call.res = "ok"
                     THEN IF b.s.delayType = "all" THEN subscribeOrigin(hit, drop)
                          ELSE LoaderPc(subjectEnd(hit, "complete"))
                     ELSE IF ~cacheEnabled
                     THEN subscribeOrigin([b EXCEPT !.s.raw = notEnabled], drop)
                     ELSE [b EXCEPT !.call.pc = "lfdoRaw"])
    /\ OnlyLoader

\* cacheStorage.get(key) resolves for the getRawItem of
\* loadFromDelayedObservable: the decoded entry is emitted if there is
\* one, and subscribeOrigin() follows either way.
loadFromDelayedObservable_getRawItem(p, drop) ==
    /\ proc[p].pc = "lfdoRaw"
    /\ LET b == Bundle(p)
           key == b.call.key
       IN  Commit(p, IF adapterFound(storage, keyPrefix, key)
                     THEN subscribeOrigin(
                            subjectNext([b EXCEPT !.s.raw = "found"], "cache",
                                        decodeRawData(adapterGet(storage, keyPrefix, key))),
                            drop)
                     ELSE subscribeOrigin([b EXCEPT !.s.raw = notFound], drop))
    /\ OnlyLoader

\* A Subject that replays what it has emitted to a consumer subscribing
\* late.
consumer_subscribe_replaying(p) ==
    /\ stream[p].ret = "subject"
    /\ ~stream[p].subscribed
    /\ stream' = [stream EXCEPT ![p] =
                    [@ EXCEPT !.subscribed = TRUE,
                              !.received = stream[p].emitted,
                              !.ended = IF stream[p].subject = "open" THEN ""
                                        ELSE stream[p].subject]]
    /\ UNCHANGED <<proc, bg>>
    /\ OnlyLoader

\* The caller subscribes to the Subject some time after the call; a
\* stopped Subject answers with its end at once.
consumer_subscribe(p) ==
    /\ stream[p].ret = "subject"
    /\ ~stream[p].subscribed
    /\ stream' = [stream EXCEPT ![p] =
                    [@ EXCEPT !.subscribed = TRUE,
                              !.ended = IF stream[p].subject = "open" THEN ""
                                        ELSE stream[p].subject]]
    /\ UNCHANGED <<proc, bg>>
    /\ OnlyLoader

\* An asynchronous source emits its next value.
source_next(p, drop) ==
    /\ stream[p].connected
    /\ ~stream[p].src.sync
    /\ stream[p].pos < Len(stream[p].src.vals)
    /\ LET b == Bundle(p)
           i == b.s.pos + 1
       IN  Commit(p, LoaderPc(Settle([DeliverAll(b, b.s.src.vals[i], 1, drop)
                                        EXCEPT !.s.pos = i])))
    /\ OnlyLoader

\* An asynchronous source completes or fails.
source_end(p) ==
    /\ stream[p].connected
    /\ ~stream[p].src.sync
    /\ stream[p].pos = Len(stream[p].src.vals)
    /\ stream[p].src.end # "never"
    /\ Commit(p, LoaderPc(FinishAll(Bundle(p), 1)))
    /\ OnlyLoader

\* saveBlobItem of a save that is not awaited: convertBlobToBase64
\* resolves, then cacheStorage.set is called.
background_convert(c) ==
    /\ c \in bg
    /\ c.pc = "convertBlob"
    /\ bg' = (bg \ {c}) \cup
               {[c EXCEPT !.pc = "set", !.touched = TRUE,
                          !.item = [@ EXCEPT !.value = encodeValue(c.data)]]}
    /\ UNCHANGED <<proc, stream>>
    /\ OnlyLoader

\* cacheStorage.set of a save that is not awaited reaches the store.
background_set(c) ==
    /\ c \in bg
    /\ c.pc = "set"
    /\ LET k == buildKey(keyPrefix, c.key)
       IN  /\ storage' = storageSet(storage, k, Envelope(c.item))
           /\ written' = storageSet(written, k, c.stamp)
    /\ bg' = bg \ {c}
    /\ UNCHANGED <<ttl, cacheEnabled, invalidateOffline, keyPrefix, online, now,
                   loadCachePc, createCalls, hist, proc, stream>>

\* ---------------------------------------------------- the specifications
NoStorage == [k \in {} |-> Envelope(NoItem)]

NoWritten == [k \in {} |-> NoStamp]

Prefix == <<"p">>

\* The constructed state with invalidateOffline initialised to true.
Constructed_invalidating ==
    /\ ttl = DefaultTTL
    /\ cacheEnabled = TRUE
    /\ invalidateOffline = TRUE
    /\ keyPrefix = Prefix
    /\ storage = NoStorage
    /\ online \in BOOLEAN
    /\ now = 0
    /\ loadCachePc = "create"
    /\ createCalls = 1
    /\ written = NoWritten
    /\ hist = [offlineArg |-> "never", off |-> FALSE, reenabled |-> FALSE]
    /\ proc = [p \in {1} |-> IdleProc]
    /\ stream = [p \in {1} |-> IdleStream]
    /\ bg = {}

\* The state after new CacheService(cacheStorage): the field initialisers,
\* and loadCache() waiting for cacheStorage.create().
Constructed ==
    /\ ttl = DefaultTTL
    /\ cacheEnabled = TRUE
    /\ invalidateOffline = FALSE
    /\ keyPrefix = Prefix
    /\ storage = NoStorage
    /\ online \in BOOLEAN
    /\ now = 0
    /\ loadCachePc = "create"
    /\ createCalls = 1
    /\ written = NoWritten
    /\ hist = [offlineArg |-> "never", off |-> FALSE, reenabled |-> FALSE]
    /\ proc = [p \in {1} |-> IdleProc]
    /\ stream = [p \in {1} |-> IdleStream]
    /\ bg = {}

\* The continuations of the item and bulk operations of caller p.
Continuations(p, K, V) ==
    \/ saveBlobItem_resolve(p)
    \/ saveBlobItem_reject(p)
    \/ cacheStorage_set(p)
    \/ \E k \in K : cacheStorage_remove(p, k)
    \/ cacheStorage_exists(p)
    \/ cacheStorage_get(p)
    \/ cacheStorage_all(p)
    \/ \E v \in V : factory_resolve(p, v)
    \/ factory_reject(p)
    \/ Return(p)

\* The calls caller p can make, with keys K, values V, groupKey arguments G,
\* ttl arguments T and patterns P.
Calls(p, K, V, G, T, P) ==
    \/ \E k \in K, v \in V, g \in G, t \in T : saveItem(p, k, v, g, t)
    \/ \E k \in K : removeItem(p, k)
    \/ \E pat \in P : removeItems(p, pat)
    \/ \E k \in K : getRawItem(p, k)
    \/ getRawItems(p)
    \/ \E k \in K : itemExists(p, k)
    \/ \E k \in K : getItem(p, k)
    \/ \E k \in K, g \in G, t \in T : getOrSetItem(p, k, g, t)
    \/ clearAll(p)
    \/ \E b \in BOOLEAN : clearExpired(p, b)
    \/ \E g \in {ArgOr(a, "none") : a \in G} : clearGroup(p, g)

\* Spec: the whole service with one caller and one key; the clock only
\* jumps to the end of the horizon.
Keys == {<<"a">>}

Values == {JsString("x"), JsBlob("text/html", "z")}

GroupArgs == {Omitted, <<"g">>}

TTLArgs == {Omitted, <<0>>}

Patterns == {<<"*">>, <<"b">>}

Init == Constructed

Next ==
    \/ Tick(MaxSec * MsPerSec)
    \/ \E b \in BOOLEAN : SetOnline(b)
    \/ loadCache_resolve
    \/ loadCache_reject
    \/ \E b \in BOOLEAN : enableCache(b)
    \/ \E b \in BOOLEAN : setOfflineInvalidate(b)
    \/ setDefaultTTL(MaxTTL)
    \/ \E p \in DOMAIN proc : Calls(p, Keys, Values, GroupArgs, TTLArgs, Patterns)
    \/ \E p \in DOMAIN proc : Continuations(p, Keys, Values)

Spec == Init /\ [][Next]_vars

\* SpecExpiry: saveItem and getItem on one key against the clock, the
\* online status and the two settings that decide about expiry.
ExpiryValues == {JsString("x")}

ExpiryTTLArgs == {Omitted} \cup {<<t>> : t \in 0..MaxTTL}

NextExpiry ==
    \/ \E t \in TimePoints : Tick(t)
    \/ \E b \in BOOLEAN : SetOnline(b)
    \/ \E b \in BOOLEAN : setOfflineInvalidate(b)
    \/ \E t \in 0..MaxTTL : setDefaultTTL(t)
    \/ \E p \in DOMAIN proc, k \in Keys, v \in ExpiryValues, t \in ExpiryTTLArgs :
          saveItem(p, k, v, Omitted, t)
    \/ \E p \in DOMAIN proc, k \in Keys : getItem(p, k)
    \/ \E p \in DOMAIN proc : cacheStorage_set(p)
    \/ \E p \in DOMAIN proc : cacheStorage_get(p)
    \/ \E p \in DOMAIN proc : Return(p)

SpecExpiry == Constructed /\ [][NextExpiry]_vars

\* SpecCodec: saveItem and getItem on one key over values of every kind
\* the codec distinguishes; the clock stands still.
Props(names, val) == [n \in names |-> val[n]]

Fields == [status |-> "200", statusText |-> "OK", headers |-> "h", url |-> "u",
           body |-> "b", _body |-> "lb", extra |-> "e", a |-> "1"]

CodecValues ==
    {JsString("x"), JsString(""), JsNumber("1"), JsNumber("NaN"),
     JsObject("Object", NoProps), JsObject("Object", Props({"a"}, Fields)),
     JsObject("Array", [n \in {"0", "1"} |-> "1"]),
     JsObject("Object", Props(ResponseFields, Fields)),
     JsObject("Object", Props(ResponseFields \cup {"extra"}, Fields)),
     JsObject("Object", Props(ResponseFields \cup {"_body"}, Fields)),
     JsObject("HttpResponse", Props(ResponseFields, Fields)),
     JsBlob("text/html", "z"), JsBlob("", "z"), JsBlob("string", "z")}

NextCodec ==
    \/ \E p \in DOMAIN proc, k \in Keys, v \in CodecValues, g \in GroupArgs :
          saveItem(p, k, v, g, Omitted)
    \/ \E p \in DOMAIN proc : saveBlobItem_resolve(p)
    \/ \E p \in DOMAIN proc : saveBlobItem_reject(p)
    \/ \E p \in DOMAIN proc : cacheStorage_set(p)
    \/ \E p \in DOMAIN proc, k \in Keys : getItem(p, k)
    \/ \E p \in DOMAIN proc : cacheStorage_get(p)
    \/ \E p \in DOMAIN proc : Return(p)

SpecCodec == Constructed /\ [][NextCodec]_vars

\* SpecObs: the two loaders on one key, over sources that emit up to
\* MaxEmit values at once or later and then complete or fail, with an
\* entry saved beforehand or not, while the clock advances and the cache
\* is switched off and on.
MaxEmit == 2

RECURSIVE SeqsUpTo(_, _)
SeqsUpTo(S, n) ==
    IF n = 0 THEN {<<>>}
    ELSE LET shorter == SeqsUpTo(S, n - 1)
         IN  shorter \cup {Append(q, v) : q \in shorter, v \in S}

SourceValues == {JsString("x")}

\* The sources: every sequence of up to MaxEmit values, emitted at once or
\* later, ending in completion or an error or staying open.
Sources ==
    {[sync |-> y, vals |-> q, end |-> e] :
        y \in BOOLEAN, q \in SeqsUpTo(SourceValues, MaxEmit),
        e \in {"complete", "error", "never"}}

CachedValues == {JsString("c")}

DelayArgs == {Omitted, <<"all">>}

NextObs ==
    \/ Tick(MsPerSec)
    \/ \E b \in BOOLEAN : enableCache(b)
    \/ \E p \in DOMAIN proc, k \in Keys, v \in CachedValues, t \in TTLArgs :
          saveItem(p, k, v, Omitted, t)
    \/ \E p \in DOMAIN proc : cacheStorage_set(p)
    \/ \E p \in DOMAIN proc, k \in Keys, o \in Sources :
          loadFromObservable(p, k, o, Omitted, Omitted)
    \/ \E p \in DOMAIN proc, drop \in BOOLEAN : loadFromObservable_subscribe(p, drop)
    \/ \E p \in DOMAIN proc, drop \in BOOLEAN : loadFromObservable_getItem(p, drop)
    \/ \E p \in DOMAIN proc, k \in Keys, o \in Sources, d \in DelayArgs, n \in BOOLEAN :
          loadFromDelayedObservable(p, k, o, Omitted, Omitted, d, n)
    \/ \E p \in DOMAIN proc, drop \in BOOLEAN : loadFromDelayedObservable_getItem(p, drop)
    \/ \E p \in DOMAIN proc, drop \in BOOLEAN : loadFromDelayedObservable_getRawItem(p, drop)
    \/ \E p \in DOMAIN proc : consumer_subscribe(p)
    \/ \E p \in DOMAIN proc, drop \in BOOLEAN : source_next(p, drop)
    \/ \E p \in DOMAIN proc : source_end(p)
    \/ \E c \in bg : background_set(c)
    \/ \E p \in DOMAIN proc : Return(p)

SpecObs == Constructed /\ [][NextObs]_vars

\* SpecRefetch: loadFromDelayedObservable on one key against the clock,
\* the online status and setOfflineInvalidate, with an entry saved
\* beforehand or not.
NextRefetch ==
    \/ Tick(MsPerSec)
    \/ \E b \in BOOLEAN : SetOnline(b)
    \/ \E b \in BOOLEAN : setOfflineInvalidate(b)
    \/ \E p \in DOMAIN proc, k \in Keys, v \in CachedValues, t \in TTLArgs :
          saveItem(p, k, v, Omitted, t)
    \/ \E p \in DOMAIN proc : cacheStorage_set(p)
    \/ \E p \in DOMAIN proc, k \in Keys, o \in Sources, d \in DelayArgs, n \in BOOLEAN :
          loadFromDelayedObservable(p, k, o, Omitted, Omitted, d, n)
    \/ \E p \in DOMAIN proc, drop \in BOOLEAN : loadFromDelayedObservable_getItem(p, drop)
    \/ \E p \in DOMAIN proc, drop \in BOOLEAN : loadFromDelayedObservable_getRawItem(p, drop)
    \/ \E p \in DOMAIN proc : consumer_subscribe(p)
    \/ \E p \in DOMAIN proc, drop \in BOOLEAN : source_next(p, drop)
    \/ \E p \in DOMAIN proc : source_end(p)
    \/ \E c \in bg : background_set(c)
    \/ \E p \in DOMAIN proc : Return(p)

SpecRefetch == Constructed /\ [][NextRefetch]_vars

\* SpecGroup: saveItem and clearGroup over two keys and two groups (the
\* default group and "g"), with string and Blob values; the clock stands
\* still and the cache stays enabled.
GroupKeys == {<<"a">>, <<"b">>}

GroupValues == {JsString("x"), JsBlob("", "z")}

NextGroup ==
    \/ \E p \in DOMAIN proc, k \in GroupKeys, v \in GroupValues, g \in GroupArgs :
          saveItem(p, k, v, g, Omitted)
    \/ \E p \in DOMAIN proc : saveBlobItem_resolve(p)
    \/ \E p \in DOMAIN proc : saveBlobItem_reject(p)
    \/ \E p \in DOMAIN proc : cacheStorage_set(p)
    \/ \E p \in DOMAIN proc, g \in {ArgOr(a, "none") : a \in GroupArgs} : clearGroup(p, g)
    \/ \E p \in DOMAIN proc : cacheStorage_all(p)
    \/ \E p \in DOMAIN proc, k \in GroupKeys : cacheStorage_remove(p, k)
    \/ \E p \in DOMAIN proc : Return(p)

SpecGroup == Constructed /\ [][NextGroup]_vars

\* Another CacheService over the same Ionic Storage, configured with
\* another keyPrefix, takes over: new CacheStorageService(storage, config).
\* The instances differ in nothing but the prefix and never run together.
useInstance(prefix) ==
    /\ \A p \in DOMAIN proc : Idle(p)
    /\ prefix # keyPrefix
    /\ keyPrefix' = prefix
    /\ UNCHANGED <<ttl, cacheEnabled, invalidateOffline, storage, online, now,
                   loadCachePc, createCalls, written, hist, proc, obs>>

\* SpecKeys: cache instances with different key prefixes (one of them
\* empty) over one store, and caller keys that do or do not begin with a
\* prefix; saving, the raw reads and the bulk removals.
KeyPrefixes == {<<>>, <<"p">>}

PrefixedKeys == {<<"a">>, <<"p", "a">>, <<"p", "p", "a">>}

KeyPatterns == {<<"*">>, <<"a">>, <<"p", "a">>}

InitKeys ==
    /\ ttl = DefaultTTL
    /\ cacheEnabled = TRUE
    /\ invalidateOffline = FALSE
    /\ keyPrefix \in KeyPrefixes
    /\ storage = NoStorage
    /\ online \in BOOLEAN
    /\ now = 0
    /\ loadCachePc = "create"
    /\ createCalls = 1
    /\ written = NoWritten
    /\ hist = [offlineArg |-> "never", off |-> FALSE, reenabled |-> FALSE]
    /\ proc = [p \in {1} |-> IdleProc]
    /\ stream = [p \in {1} |-> IdleStream]
    /\ bg = {}

NextKeys ==
    \/ \E prefix \in KeyPrefixes : useInstance(prefix)
    \/ \E p \in DOMAIN proc, k \in PrefixedKeys, v \in ExpiryValues, g \in GroupArgs :
          saveItem(p, k, v, g, Omitted)
    \/ \E p \in DOMAIN proc : cacheStorage_set(p)
    \/ \E p \in DOMAIN proc, k \in PrefixedKeys : removeItem(p, k)
    \/ \E p \in DOMAIN proc, k \in PrefixedKeys : getRawItem(p, k)
    \/ \E p \in DOMAIN proc : cacheStorage_get(p)
    \/ \E p \in DOMAIN proc : getRawItems(p)
    \/ \E p \in DOMAIN proc, k \in PrefixedKeys : itemExists(p, k)
    \/ \E p \in DOMAIN proc : cacheStorage_exists(p)
    \/ \E p \in DOMAIN proc : clearAll(p)
    \/ \E p \in DOMAIN proc, g \in {ArgOr(a, "none") : a \in GroupArgs} : clearGroup(p, g)
    \/ \E p \in DOMAIN proc, pat \in KeyPatterns : removeItems(p, pat)
    \/ \E p \in DOMAIN proc : cacheStorage_all(p)
    \/ \E p \in DOMAIN proc, k \in PrefixedKeys : cacheStorage_remove(p, k)
    \/ \E p \in DOMAIN proc : Return(p)

SpecKeys == InitKeys /\ [][NextKeys]_vars

\* SpecGlob: saveItem and removeItems over keys and patterns made of
\* letters, the dot and the star.
GlobKeys == {<<"a">>, <<".">>, <<"a", "b">>}

GlobPatterns == {<<"*">>, <<"a", "*">>, <<".">>, <<"a">>, <<>>}

NextGlob ==
    \/ \E p \in DOMAIN proc, k \in GlobKeys, v \in ExpiryValues :
          saveItem(p, k, v, Omitted, Omitted)
    \/ \E p \in DOMAIN proc : cacheStorage_set(p)
    \/ \E p \in DOMAIN proc, pat \in GlobPatterns : removeItems(p, pat)
    \/ \E p \in DOMAIN proc : cacheStorage_all(p)
    \/ \E p \in DOMAIN proc, k \in GlobKeys : cacheStorage_remove(p, k)
    \/ \E p \in DOMAIN proc : Return(p)

SpecGlob == Constructed /\ [][NextGlob]_vars

\* SpecPrune: saveItem, clearExpired and getItem over two keys, with
\* entries that expire at once (ttl 0) or not within the horizon, string
\* and Blob values, a clock that starts after the epoch and moves in
\* single milliseconds, and a changing online status.
InitPrune ==
    /\ ttl = DefaultTTL
    /\ cacheEnabled = TRUE
    /\ invalidateOffline = FALSE
    /\ keyPrefix = Prefix
    /\ storage = NoStorage
    /\ online \in BOOLEAN
    /\ now = 1
    /\ loadCachePc = "create"
    /\ createCalls = 1
    /\ written = NoWritten
    /\ hist = [offlineArg |-> "never", off |-> FALSE, reenabled |-> FALSE]
    /\ proc = [p \in {1} |-> IdleProc]
    /\ stream = [p \in {1} |-> IdleStream]
    /\ bg = {}

NextPrune ==
    \/ now <= MaxSec /\ Tick(now + 1)
    \/ \E b \in BOOLEAN : SetOnline(b)
    \/ \E p \in DOMAIN proc, k \in GroupKeys, v \in GroupValues, t \in TTLArgs :
          saveItem(p, k, v, Omitted, t)
    \/ \E p \in DOMAIN proc : saveBlobItem_resolve(p)
    \/ \E p \in DOMAIN proc : saveBlobItem_reject(p)
    \/ \E p \in DOMAIN proc : cacheStorage_set(p)
    \/ \E p \in DOMAIN proc, b \in BOOLEAN : clearExpired(p, b)
    \/ \E p \in DOMAIN proc : cacheStorage_all(p)
    \/ \E p \in DOMAIN proc, k \in GroupKeys : cacheStorage_remove(p, k)
    \/ \E p \in DOMAIN proc, k \in GroupKeys : getItem(p, k)
    \/ \E p \in DOMAIN proc : cacheStorage_get(p)
    \/ \E p \in DOMAIN proc : Return(p)

SpecPrune == InitPrune /\ [][NextPrune]_vars

\* A record in the Ionic Storage that the cache did not write: it has
\* neither an expires nor a type field (both read as undefined).
ForeignRecord == [value |-> "foreign", expires |-> 0, type |-> "", groupKey |-> ""]

\* The application stores a record of its own: storage.set(key, value).
foreign_set(key) ==
    /\ key \notin DOMAIN storage
    /\ storage' = storageSet(storage, key, ForeignRecord)
    /\ UNCHANGED <<ttl, cacheEnabled, invalidateOffline, keyPrefix, online, now,
                   loadCachePc, createCalls, written, hist, proc, obs>>

\* SpecClear: saveItem, clearAll and the raw reads over two keys, string
\* and Blob values, with or without a key prefix, in a store the
\* application also uses for a record of its own.
ForeignKeys == {<<"f">>}

ClearValues == {JsString("x"), JsBlob("text/html", "z"), JsBlob("", "z")}

InitClear ==
    /\ ttl = DefaultTTL
    /\ cacheEnabled = TRUE
    /\ invalidateOffline = FALSE
    /\ keyPrefix \in {<<>>, Prefix}
    /\ storage = NoStorage
    /\ online \in BOOLEAN
    /\ now = 0
    /\ loadCachePc = "create"
    /\ createCalls = 1
    /\ written = NoWritten
    /\ hist = [offlineArg |-> "never", off |-> FALSE, reenabled |-> FALSE]
    /\ proc = [p \in {1} |-> IdleProc]
    /\ stream = [p \in {1} |-> IdleStream]
    /\ bg = {}

NextClear ==
    \/ \E k \in ForeignKeys : foreign_set(k)
    \/ \E p \in DOMAIN proc, k \in GroupKeys, v \in ClearValues :
          saveItem(p, k, v, Omitted, Omitted)
    \/ \E p \in DOMAIN proc : saveBlobItem_resolve(p)
    \/ \E p \in DOMAIN proc : saveBlobItem_reject(p)
    \/ \E p \in DOMAIN proc : cacheStorage_set(p)
    \/ \E p \in DOMAIN proc : clearAll(p)
    \/ \E p \in DOMAIN proc : cacheStorage_all(p)
    \/ \E p \in DOMAIN proc, k \in GroupKeys \cup ForeignKeys : cacheStorage_remove(p, k)
    \/ \E p \in DOMAIN proc, k \in GroupKeys : itemExists(p, k)
    \/ \E p \in DOMAIN proc : cacheStorage_exists(p)
    \/ \E p \in DOMAIN proc, k \in GroupKeys : getRawItem(p, k)
    \/ \E p \in DOMAIN proc : cacheStorage_get(p)
    \/ \E p \in DOMAIN proc : getRawItems(p)
    \/ \E p \in DOMAIN proc : Return(p)

SpecClear == InitClear /\ [][NextClear]_vars

\* The application starts again: a new CacheService is constructed over the
\* Ionic Storage the last run left behind; calls in progress are gone.
restart ==
    /\ ttl' = DefaultTTL
    /\ cacheEnabled' = TRUE
    /\ invalidateOffline' = FALSE
    /\ loadCachePc' = "create"
    /\ createCalls' = 1
    /\ hist' = [offlineArg |-> "never", off |-> FALSE, reenabled |-> FALSE]
    /\ proc' = [p \in DOMAIN proc |-> IdleProc]
    /\ stream' = [p \in DOMAIN stream |-> IdleStream]
    /\ bg' = {}
    /\ UNCHANGED <<keyPrefix, storage, online, now, written>>

\* What the service does by itself once it has been called or constructed.
StartupInternal ==
    \/ loadCache_resolve
    \/ loadCache_reject
    \/ \E p \in DOMAIN proc : cacheStorage_set(p)
    \/ \E p \in DOMAIN proc : cacheStorage_all(p)
    \/ \E p \in DOMAIN proc, k \in GroupKeys : cacheStorage_remove(p, k)

NextStartup ==
    \/ now <= MaxSec /\ Tick(now + 1)
    \/ restart
    \/ \E p \in DOMAIN proc, k \in GroupKeys, v \in ExpiryValues, t \in TTLArgs :
          saveItem(p, k, v, Omitted, t)
    \/ \E p \in DOMAIN proc : clearExpired(p, TRUE)
    \/ \E p \in DOMAIN proc : Return(p)
    \/ StartupInternal

\* SpecStartupLive: entries are saved, time passes, and the application is
\* started again over the same store; the storage adapter answers every
\* call in the end, and the caller is not obliged to call anything.
SpecStartupLive == InitPrune /\ [][NextStartup]_vars /\ WF_vars(StartupInternal)

\* SpecRace: two saveItem calls on one key whose storage steps interleave:
\* caller 1 calls first, caller 2 while the call of caller 1 is in progress
\* or has just settled; time may pass in between.
InitRace ==
    /\ ttl = DefaultTTL
    /\ cacheEnabled = TRUE
    /\ invalidateOffline = FALSE
    /\ keyPrefix = Prefix
    /\ storage = NoStorage
    /\ online \in BOOLEAN
    /\ now = 1
    /\ loadCachePc = "create"
    /\ createCalls = 1
    /\ written = NoWritten
    /\ hist = [offlineArg |-> "never", off |-> FALSE, reenabled |-> FALSE]
    /\ proc = [p \in {1, 2} |-> IdleProc]
    /\ stream = [p \in {1, 2} |-> IdleStream]
    /\ bg = {}

NextRace ==
    \/ now <= MaxSec /\ Tick(now + 1)
    \/ \E k \in Keys, v \in Values, g \in GroupArgs :
          Idle(2) /\ saveItem(1, k, v, g, Omitted)
    \/ \E k \in Keys, v \in Values, g \in GroupArgs :
          ~Idle(1) /\ saveItem(2, k, v, g, Omitted)
    \/ \E p \in DOMAIN proc : saveBlobItem_resolve(p)
    \/ \E p \in DOMAIN proc : saveBlobItem_reject(p)
    \/ \E p \in DOMAIN proc : cacheStorage_set(p)
    \/ proc[2].pc = "done" /\ Return(1)
    \/ Idle(1) /\ Return(2)

SpecRace == InitRace /\ [][NextRace]_vars

\* SpecStamp: every way an entry gets written (saveItem, getOrSetItem and
\* the two loaders) with an omitted, zero or (for saveItem and getOrSetItem)
\* negative ttl, while the default ttl is changed and the clock moves on
\* once, and getItem reading it back online.
StampTTLArgs == {Omitted, <<0>>, <<-1>>}

StampSources == {[sync |-> FALSE, vals |-> <<JsString("x")>>, end |-> "complete"]}

InitStamp ==
    /\ ttl = DefaultTTL
    /\ cacheEnabled = TRUE
    /\ invalidateOffline = FALSE
    /\ keyPrefix = Prefix
    /\ storage = NoStorage
    /\ online = TRUE
    /\ now = 1
    /\ loadCachePc = "create"
    /\ createCalls = 1
    /\ written = NoWritten
    /\ hist = [offlineArg |-> "never", off |-> FALSE, reenabled |-> FALSE]
    /\ proc = [p \in {1} |-> IdleProc]
    /\ stream = [p \in {1} |-> IdleStream]
    /\ bg = {}

NextStamp ==
    \/ Tick(MsPerSec)
    \/ setDefaultTTL(MaxTTL)
    \/ \E p \in DOMAIN proc, k \in Keys, v \in ExpiryValues, t \in StampTTLArgs :
          saveItem(p, k, v, Omitted, t)
    \/ \E p \in DOMAIN proc, k \in Keys, t \in StampTTLArgs :
          getOrSetItem(p, k, Omitted, t)
    \/ \E p \in DOMAIN proc, v \in ExpiryValues : factory_resolve(p, v)
    \/ \E p \in DOMAIN proc : factory_reject(p)
    \/ \E p \in DOMAIN proc, k \in Keys : getItem(p, k)
    \/ \E p \in DOMAIN proc : cacheStorage_get(p)
    \/ \E p \in DOMAIN proc : cacheStorage_set(p)
    \/ \E p \in DOMAIN proc, k \in Keys, o \in StampSources, t \in TTLArgs :
          loadFromObservable(p, k, o, Omitted, t)
    \/ \E p \in DOMAIN proc, drop \in BOOLEAN : loadFromObservable_subscribe(p, drop)
    \/ \E p \in DOMAIN proc, drop \in BOOLEAN : loadFromObservable_getItem(p, drop)
    \/ \E p \in DOMAIN proc, k \in Keys, o \in StampSources, t \in TTLArgs :
          loadFromDelayedObservable(p, k, o, Omitted, t, Omitted, TRUE)
    \/ \E p \in DOMAIN proc, drop \in BOOLEAN : loadFromDelayedObservable_getItem(p, drop)
    \/ \E p \in DOMAIN proc, drop \in BOOLEAN : loadFromDelayedObservable_getRawItem(p, drop)
    \/ \E p \in DOMAIN proc, drop \in BOOLEAN : source_next(p, drop)
    \/ \E p \in DOMAIN proc : source_end(p)
    \/ \E c \in bg : background_set(c)
    \/ \E p \in DOMAIN proc : Return(p)

SpecStamp == InitStamp /\ [][NextStamp]_vars

\* SpecSweep: clearExpired or clearGroup of caller 1 while caller 2 saves:
\* the saves of caller 2 and the steps of the bulk operation (all(), then
\* one remove per selected key) interleave freely as the clock advances.
SweepGroups == {"g", "h"}

InitSweep ==
    /\ ttl = DefaultTTL
    /\ cacheEnabled = TRUE
    /\ invalidateOffline = FALSE
    /\ keyPrefix = Prefix
    /\ storage = NoStorage
    /\ online = TRUE
    /\ now = 1
    /\ loadCachePc = "create"
    /\ createCalls = 1
    /\ written = NoWritten
    /\ hist = [offlineArg |-> "never", off |-> FALSE, reenabled |-> FALSE]
    /\ proc = [p \in {1, 2} |-> IdleProc]
    /\ stream = [p \in {1, 2} |-> IdleStream]
    /\ bg = {}

NextSweep ==
    \/ now <= MaxSec /\ Tick(now + 1)
    \/ \E k \in GroupKeys, v \in ExpiryValues, g \in SweepGroups, t \in TTLArgs :
          saveItem(2, k, v, <<g>>, t)
    \/ cacheStorage_set(2)
    \/ clearExpired(1, FALSE)
    \/ \E g \in SweepGroups : clearGroup(1, g)
    \/ cacheStorage_all(1)
    \/ \E k \in GroupKeys : cacheStorage_remove(1, k)
    \/ \E p \in DOMAIN proc : Return(p)

SpecSweep == InitSweep /\ [][NextSweep]_vars

\* SpecTwin: two callers run getOrSetItem on one key at overlapping times,
\* with the key absent or holding an entry saved earlier with ttl 0; the
\* storage steps and the factories of the two calls interleave freely.
TwinValues == {JsString("x"), JsString("y")}

NextTwin ==
    \/ now <= MaxSec /\ Tick(now + 1)
    \/ \E k \in Keys, v \in TwinValues :
          Idle(2) /\ saveItem(1, k, v, Omitted, <<0>>)
    \/ \E p \in DOMAIN proc, k \in Keys :
          /\ \A q \in DOMAIN proc : proc[q].pc # "done"
          /\ getOrSetItem(p, k, Omitted, Omitted)
    \/ \E p \in DOMAIN proc : cacheStorage_get(p)
    \/ \E p \in DOMAIN proc, v \in TwinValues : factory_resolve(p, v)
    \/ \E p \in DOMAIN proc : factory_reject(p)
    \/ \E p \in DOMAIN proc : cacheStorage_set(p)
    \/ \E p \in DOMAIN proc : Return(p)

SpecTwin == InitSweep /\ [][NextTwin]_vars

\* The asynchronous sources that emit, complete or fail once they are
\* subscribed.
SettlingSources == {o \in Sources : ~o.sync /\ (o.vals # <<>> \/ o.end # "never")}

\* What happens by itself once the call is made: the storage adapter
\* answers, and the subscribed source emits and ends.
DelayedInternal ==
    \/ \E p \in DOMAIN proc : cacheStorage_set(p)
    \/ \E p \in DOMAIN proc, drop \in BOOLEAN : loadFromDelayedObservable_getItem(p, drop)
    \/ \E p \in DOMAIN proc, drop \in BOOLEAN : loadFromDelayedObservable_getRawItem(p, drop)
    \/ \E p \in DOMAIN proc, drop \in BOOLEAN : source_next(p, drop)
    \/ \E p \in DOMAIN proc : source_end(p)
    \/ \E c \in bg : background_set(c)

NextDelayed ==
    \/ \E b \in BOOLEAN : enableCache(b)
    \/ \E p \in DOMAIN proc, k \in Keys, v \in CachedValues :
          saveItem(p, k, v, Omitted, <<0>>)
    \/ \E p \in DOMAIN proc, k \in Keys, o \in SettlingSources, d \in DelayArgs,
          n \in BOOLEAN :
          loadFromDelayedObservable(p, k, o, Omitted, Omitted, d, n)
    \/ \E p \in DOMAIN proc : consumer_subscribe(p)
    \/ DelayedInternal
    \/ \E p \in DOMAIN proc : Return(p)

\* SpecDelayedLive: loadFromDelayedObservable on one key, with an entry
\* saved beforehand or not, while the cache is switched off and on; every
\* storage operation settles in the end and a subscribed source goes on to
\* its next emission or end.
SpecDelayedLive == Constructed /\ [][NextDelayed]_vars /\ WF_vars(DelayedInternal)

\* ------------------------------------------------------------ the claims
\* A getItem of caller p that found an entry and has settled.
GotEntry(p) ==
    /\ proc[p].op = "getItem"
    /\ proc[p].pc = "done"
    /\ proc[p].found

\* The expiry instant of the entry a getItem read: s + t * 1000.
ExpiryOf(p) == proc[p].read.at + proc[p].read.ttl * MsPerSec

\* C1 (as claimed): getItem right after saveItem(key, v) resolves with a
\* value equal to v, whatever kind of value v is.
C1_RoundTrip ==
    \A p \in DOMAIN proc :
        GotEntry(p) => proc[p].res = "ok" /\ DeepEquals(proc[p].out, proc[p].read.data)

\* C2: an entry saved with ttl t at time s is returned by getItem, while
\* the device is online, at every instant up to and including s + t*1000,
\* and getItem fails with Expired at every later instant.
C2_ExpirationBoundary ==
    \A p \in DOMAIN proc :
        GotEntry(p) /\ proc[p].onlineAt =>
            /\ proc[p].checkedAt <= ExpiryOf(p) =>
                  proc[p].res = "ok" /\ DeepEquals(proc[p].out, proc[p].read.data)
            /\ proc[p].checkedAt > ExpiryOf(p) => proc[p].res = expired

\* C2 witness: an online getItem at exactly the expiry instant of an entry
\* saved with a positive ttl has resolved.
C2_AtExpiryInstant ==
    \E p \in DOMAIN proc :
        /\ GotEntry(p) /\ proc[p].onlineAt
        /\ proc[p].read.ttl > 0
        /\ proc[p].checkedAt = ExpiryOf(p)
        /\ proc[p].res = "ok"

\* The entry caller p read had expired when getItem looked at the clock.
ReadExpired(p) == GotEntry(p) /\ proc[p].raw.expires < proc[p].checkedAt

\* C3 (as claimed): after setOfflineInvalidate(false), while the device is
\* offline, getItem on an entry whose expiry time has passed resolves with
\* the stale value.
C3_OfflineGraceAfterSetterFalse ==
    \A p \in DOMAIN proc :
        ReadExpired(p) /\ proc[p].argAt = "false" /\ ~proc[p].onlineAt =>
            proc[p].res = "ok" /\ DeepEquals(proc[p].out, proc[p].read.data)

\* C4: when getItem finds an entry whose expiry time has passed, it fails
\* with Expired exactly if invalidateOffline is true or the device is online
\* at that moment, and otherwise resolves with the decoded stale value.
C4_ExpiredDecision ==
    [][\A p \in DOMAIN proc :
          (/\ proc[p].op = "getItem" /\ proc[p].pc = "get"
           /\ proc'[p].pc = "done" /\ proc'[p].found
           /\ proc'[p].raw.expires < now)
          => /\ (proc'[p].res = expired) <=> (invalidateOffline \/ online)
             /\ (~invalidateOffline /\ ~online) =>
                   /\ proc'[p].res = "ok"
                   /\ DeepEquals(proc'[p].out, proc'[p].read.data)]_vars

\* C4 witness: offline, with invalidateOffline false, getItem has returned
\* the value of an expired entry.
C4_StaleReturnedOffline ==
    \E p \in DOMAIN proc :
        /\ ReadExpired(p) /\ ~proc[p].onlineAt /\ ~proc[p].flagAt
        /\ proc[p].res = "ok"

\* C5 (as claimed): on a service on which setOfflineInvalidate was never
\* called, getItem on an entry whose expiry time has passed fails with
\* Expired while the device is offline.
C5_DefaultInvalidatesOffline ==
    \A p \in DOMAIN proc :
        ReadExpired(p) /\ proc[p].argAt = "never" /\ ~proc[p].onlineAt =>
            proc[p].res = expired

\* C5 (amended): on a service on which setOfflineInvalidate was never
\* called, getItem on an entry whose expiry time has passed resolves with
\* the stale value while the device is offline, and fails with Expired while
\* it is online.
C5_DefaultKeepsStaleOffline ==
    \A p \in DOMAIN proc :
        ReadExpired(p) /\ proc[p].argAt = "never" =>
            /\ ~proc[p].onlineAt =>
                  proc[p].res = "ok" /\ DeepEquals(proc[p].out, proc[p].read.data)
            /\ proc[p].onlineAt => proc[p].res = expired

\* C5 witness: setOfflineInvalidate never called, the device offline, and a
\* getItem on an expired entry has settled.
C5_DefaultOfflineExpiredRead ==
    \E p \in DOMAIN proc :
        ReadExpired(p) /\ proc[p].argAt = "never" /\ ~proc[p].onlineAt

\* The operations the claim lists as gated.
GatedOps == {"saveItem", "removeItem", "removeItems", "getRawItem", "getRawItems",
             "itemExists", "getItem", "getOrSetItem", "clearAll", "clearExpired",
             "clearGroup"}

\* C6 (as claimed): a call of any of the eleven item and bulk operations
\* made while the cache is disabled fails at once with 'Cache is not
\* enabled.', has not called the storage adapter and has not invoked the
\* caller's factory.
C6_DisableGate ==
    \A p \in DOMAIN proc :
        proc[p].op \in GatedOps /\ ~proc[p].gate =>
            /\ proc[p].pc = "done"
            /\ proc[p].res = notEnabled
            /\ ~proc[p].touched
            /\ proc[p].fcalls = 0

\* C7: switching the cache off and on again changes nothing but the switch:
\* a step that changes cacheEnabled leaves the stored entries, the default
\* ttl and invalidateOffline as they were, and cacheStorage.create() has
\* been called once, by the constructor, and is not called again.
C7_ReenableRestores ==
    [][(cacheEnabled' # cacheEnabled =>
          (/\ storage' = storage
           /\ ttl' = ttl
           /\ invalidateOffline' = invalidateOffline
           /\ createCalls = 1
           /\ createCalls' = 1))]_vars

\* C7 witness: the caller switched the cache off and on again, and a
\* getItem called while it is on again has returned a stored entry.
C7_ReadAfterReenable ==
    /\ hist.reenabled
    /\ cacheEnabled
    /\ \E p \in DOMAIN proc :
          GotEntry(p) /\ proc[p].gate /\ proc[p].res = "ok"

\* C9: when cacheStorage.create() fails the service is left disabled; only
\* a step that is neither an operation nor a continuation nor the loader
\* (the caller's enableCache(true)) ever turns cacheEnabled from false to
\* true, and create() is never called a second time.
C9_InitFailureSticky ==
    [][(/\ (loadCachePc = "create" /\ loadCachePc' = "failed") => ~cacheEnabled'
        /\ (~cacheEnabled /\ cacheEnabled') => UNCHANGED <<proc, loadCachePc, storage>>
        /\ createCalls' = 1)]_vars

\* C9 witness: initialisation has failed, the cache is disabled and a call
\* has been refused.
C9_DisabledAfterFailedInit ==
    /\ loadCachePc = "failed"
    /\ ~cacheEnabled
    /\ \E p \in DOMAIN proc : proc[p].res = notEnabled /\ proc[p].pc = "done"

\* The two loaders.
Loaders == {"loadFromObservable", "loadFromDelayedObservable"}

\* C8: a loader called while the cache is disabled returns the caller's
\* source itself and has not called the storage adapter, subscribed to the
\* source, created a Subject or issued a save.
C8_PassThroughWhenDisabled ==
    \A p \in DOMAIN proc :
        (proc[p].op \in Loaders /\ ~proc[p].gate) =>
            /\ proc[p].pc = "done"
            /\ stream[p].ret = "source"
            /\ ~proc[p].touched
            /\ stream[p].execs = 0
            /\ stream[p].subs = {}
            /\ ~stream[p].connected
            /\ stream[p].subject = ""
            /\ stream[p].saves = 0
            /\ ~stream[p].saveThrew
            /\ stream[p].received = <<>>

\* C8 witness: a loader was called while the cache was disabled, with an
\* entry for its key in the store and a source that has values to emit.
C8_DisabledLoaderCalled ==
    \E p \in DOMAIN proc :
        /\ proc[p].op = "loadFromDelayedObservable"
        /\ ~proc[p].gate
        /\ stream[p].ret = "source"
        /\ stream[p].src.vals # <<>>
        /\ adapterFound(storage, keyPrefix, proc[p].key)

\* The values of a sequence of emissions.
ValuesOf(es) == [i \in 1..Len(es) |-> es[i].val]

IsPrefix(q, r) == Len(q) <= Len(r) /\ \A i \in 1..Len(q) : q[i] = r[i]

\* C10: for a subscription to what loadFromObservable returned: if getItem
\* resolved, the consumer has received exactly the cached value and the
\* completion, and the source was never subscribed; if getItem rejected,
\* the consumer has received only emissions of the source, in order, and
\* the call is over only with the source's own end after all of its
\* values; never a cached value together with a source value.
C10_ExactlyOneBranch ==
    \A p \in DOMAIN proc :
        (proc[p].op = "loadFromObservable" /\ stream[p].ret = "deferred") =>
            LET c == proc[p]
                s == stream[p]
            IN  /\ c.pc \in {"deferred", "lfoGet"} =>
                      /\ s.received = <<>>
                      /\ s.ended = ""
                      /\ s.execs = 0
                /\ (c.pc \in {"source", "done"} /\ c.res = "ok") =>
                      /\ s.received = <<Emission("cache", decodeRawData(c.raw))>>
                      /\ s.ended = "complete"
                      /\ s.execs = 0
                      /\ s.saves = 0
                /\ (c.pc \in {"source", "done"} /\ c.res # "ok") =>
                      /\ \A i \in 1..Len(s.received) : s.received[i].from = "source"
                      /\ IsPrefix(ValuesOf(s.received), s.src.vals)
                      /\ s.ended \in {"", s.src.end}
                      /\ s.ended # "" => Len(s.received) = Len(s.src.vals)
                      /\ c.pc = "done" => s.ended # ""
                /\ ~\E i, j \in 1..Len(s.received) :
                        /\ s.received[i].from = "cache"
                        /\ s.received[j].from = "source"

\* C10 witness: a subscription was answered from the cache with a value
\* that an earlier subscription had taken from its source and saved, and
\* the source of this call, which has values to emit, was left alone.
C10_HitAfterMiss ==
    \E p \in DOMAIN proc :
        /\ proc[p].op = "loadFromObservable"
        /\ proc[p].pc = "done"
        /\ proc[p].res = "ok"
        /\ stream[p].received = <<Emission("cache", JsString("x"))>>
        /\ stream[p].ended = "complete"
        /\ stream[p].src.vals # <<>>
        /\ stream[p].execs = 0

\* C11: on a cache miss of loadFromObservable the source is executed at
\* most once for the subscription, whether it emits at once or later.
C11_SingleSubscription ==
    \A p \in DOMAIN proc :
        proc[p].op = "loadFromObservable" => stream[p].execs <= 1

\* A subscription to what loadFromObservable returned that went on to the
\* source, with no save refused so far.
MissServed(p) ==
    /\ proc[p].op = "loadFromObservable"
    /\ stream[p].ret = "deferred"
    /\ proc[p].pc \in {"source", "done"}
    /\ proc[p].res # "ok"
    /\ ~stream[p].saveThrew

\* The save c carries the key, the group and the ttl of the call of p.
SavedAsGiven(c, p) ==
    /\ c.key = proc[p].key
    /\ c.item.groupKey = ArgOr(proc[p].groupArg, "none")
    /\ c.stamp.ttl = ArgOr(proc[p].ttlArg, ttl)
    /\ c.item.expires = c.stamp.at + c.stamp.ttl * MsPerSec
    /\ c.item.type = typeTag(c.data)
    /\ c.item.value = encodeValue(c.data)

\* C12: on a cache miss of loadFromObservable with the cache enabled,
\* every value the source has emitted has been forwarded to the consumer
\* and has had a save issued for it under the key with the given group and
\* ttl; and a subscription that finds an entry before its expiry emits the
\* saved value and leaves its source alone.
C12_PopulatesCache ==
    \A p \in DOMAIN proc :
        /\ MissServed(p) =>
              /\ ValuesOf(stream[p].received) =
                    SubSeq(stream[p].src.vals, 1, stream[p].pos)
              /\ stream[p].saves = stream[p].pos
              /\ \A c \in bg : c.stamp.at = now => SavedAsGiven(c, p)
        /\ (/\ proc[p].op = "loadFromObservable"
            /\ proc[p].pc \in {"source", "done"}
            /\ proc[p].found
            /\ proc[p].checkedAt <= ExpiryOf(p)) =>
              /\ proc[p].res = "ok"
              /\ DeepEquals(proc[p].out, proc[p].read.data)
              /\ stream[p].received = <<Emission("cache", proc[p].out)>>
              /\ stream[p].execs = 0

\* A subscription to what loadFromObservable returned that went on to a
\* source which has ended with an error.
MissFailed(p) ==
    /\ proc[p].op = "loadFromObservable"
    /\ stream[p].ret = "deferred"
    /\ proc[p].res # "ok"
    /\ proc[p].pc = "done"
    /\ stream[p].src.end = "error"

Delayed(p) ==
    /\ proc[p].op = "loadFromDelayedObservable"
    /\ stream[p].ret = "subject"

\* The lookup of the call of p has found an entry for the key, by getItem
\* or, after getItem had rejected, by getRawItem.
CachedFound(p) == proc[p].res = "ok" \/ stream[p].raw = "found"

\* The consumer has subscribed and has missed nothing the Subject emitted.
FromTheStart(p) ==
    /\ stream[p].subscribed
    /\ Len(stream[p].received) = Len(stream[p].emitted)

C15_EntryNeverRefetched ==
    \A p \in DOMAIN proc :
        (/\ Delayed(p)
         /\ stream[p].delayType # "all"
         /\ proc[p].found
         /\ proc[p].pc \in {"source", "done"}) =>
            /\ stream[p].execs = 0
            /\ stream[p].emitted = <<Emission("cache", decodeRawData(proc[p].raw))>>
            /\ stream[p].subject = "complete"

\* C15 (amended): with a delayType other than 'all', when getItem resolves
\* the Subject emits the cached value and completes and the source is
\* never subscribed; when getItem rejects with Expired and getRawItem
\* still finds the entry, the Subject emits the stale value first and the
\* source is subscribed once.  The source is subscribed only when
\* delayType is 'all' or getItem rejected.
C15_ExpiredEntryRefetched ==
    \A p \in DOMAIN proc :
        Delayed(p) =>
            /\ stream[p].execs <= 1
            /\ stream[p].execs = 1 => (stream[p].delayType = "all" \/ proc[p].res # "ok")
            /\ (stream[p].delayType # "all" /\ proc[p].res = "ok") =>
                  /\ stream[p].emitted = <<Emission("cache", proc[p].out)>>
                  /\ proc[p].out = decodeRawData(proc[p].raw)
                  /\ stream[p].subject = "complete"
                  /\ stream[p].execs = 0
                  /\ proc[p].pc = "done"
            /\ (stream[p].delayType # "all" /\ proc[p].res = expired
                  /\ stream[p].raw = "found") =>
                  /\ stream[p].emitted # <<>>
                  /\ stream[p].emitted[1].from = "cache"
                  /\ stream[p].execs = 1

\* C15 witness: with the default delayType an expired entry was found
\* while online; the stale value and then the source's value were emitted.
C15_StaleThenFresh ==
    \E p \in DOMAIN proc :
        /\ Delayed(p)
        /\ stream[p].delayType = "expired"
        /\ proc[p].res = expired
        /\ proc[p].onlineAt
        /\ stream[p].raw = "found"
        /\ stream[p].emitted = <<Emission("cache", JsString("c")),
                                 Emission("source", JsString("x"))>>
        /\ stream[p].subject = "complete"
        /\ stream[p].execs = 1

\* A call of loadFromDelayedObservable with a delayType other than 'all'
\* whose lookup is over.
DelayedLookedUp(p) ==
    /\ Delayed(p)
    /\ stream[p].delayType # "all"
    /\ proc[p].pc \in {"source", "done"}

\* The expiry time of the entry the lookup of p found had passed.
PastExpiry(p) == proc[p].found /\ proc[p].checkedAt > ExpiryOf(p)

\* C16 (as claimed): with a delayType other than 'all' the source is
\* subscribed exactly if the entry is absent or its expiry time has passed.
C16_DocumentedRefetch ==
    \A p \in DOMAIN proc :
        DelayedLookedUp(p) =>
            /\ (proc[p].found /\ ~PastExpiry(p)) => stream[p].execs = 0
            /\ PastExpiry(p) => stream[p].execs = 1
            /\ ~proc[p].found => stream[p].execs = 1

\* C16 (amended): with a delayType other than 'all' the source is
\* subscribed exactly if getItem rejected: the entry is absent, or its
\* expiry time has passed while the device is online or invalidateOffline
\* is true.  An entry past its expiry time that is read offline with
\* invalidateOffline false is emitted stale and not refetched.
C16_RefetchWhenGetItemRejects ==
    \A p \in DOMAIN proc :
        DelayedLookedUp(p) =>
            /\ (proc[p].found /\ ~PastExpiry(p)) =>
                  (stream[p].execs = 0 /\ proc[p].res = "ok")
            /\ (PastExpiry(p) /\ (proc[p].flagAt \/ proc[p].onlineAt)) =>
                  (stream[p].execs = 1 /\ proc[p].res = expired)
            /\ (PastExpiry(p) /\ ~proc[p].flagAt /\ ~proc[p].onlineAt) =>
                  /\ stream[p].execs = 0
                  /\ proc[p].res = "ok"
                  /\ stream[p].emitted = <<Emission("cache", proc[p].out)>>
                  /\ stream[p].subject = "complete"
            /\ ~proc[p].found => (stream[p].execs = 1 /\ proc[p].res = notFound)

\* C16 witness: offline, with the default delayType, an entry past its
\* expiry time was emitted and the source was left alone.
C16_StaleOfflineNoRefetch ==
    \E p \in DOMAIN proc :
        /\ DelayedLookedUp(p)
        /\ PastExpiry(p)
        /\ ~proc[p].onlineAt
        /\ ~proc[p].flagAt
        /\ stream[p].emitted = <<Emission("cache", JsString("c"))>>
        /\ stream[p].src.vals # <<>>
        /\ stream[p].execs = 0

FetchFailed(p) ==
    /\ Delayed(p)
    /\ stream[p].execs = 1
    /\ ~stream[p].connected
    /\ stream[p].src.end = "error"
    /\ ~stream[p].saveThrew

\* What the Subject has emitted from the cache: the one cached value if
\* the lookup found an entry, else nothing.
CachedPart(p) ==
    /\ Len(stream[p].emitted) = (IF CachedFound(p) THEN 1 ELSE 0)
    /\ \A i \in 1..Len(stream[p].emitted) : stream[p].emitted[i].from = "cache"

C19_SaveFailureInvisible ==
    \A p \in DOMAIN proc :
        /\ (/\ proc[p].op = "loadFromObservable"
            /\ stream[p].ret = "deferred"
            /\ proc[p].pc \in {"source", "done"}
            /\ proc[p].res # "ok"
            /\ ~(stream[p].src.sync /\ stream[p].src.end = "never")) =>
              /\ ValuesOf(stream[p].received) =
                    SubSeq(stream[p].src.vals, 1, stream[p].pos)
              /\ (~stream[p].connected /\ stream[p].src.end # "never") =>
                    stream[p].ended = stream[p].src.end
        /\ (Delayed(p) /\ stream[p].execs = 1 /\ stream[p].pos >= 1) =>
              /\ stream[p].emitted # <<>>
              /\ stream[p].emitted[Len(stream[p].emitted)] =
                    Emission("source", stream[p].src.vals[1])
              /\ stream[p].subject = "complete"


\* ------------------------------------------------------------------ C20
\* The entries of the namespace: what the store holds under the prefix.
InNamespace(k) == k \in DOMAIN storage /\ StartsWith(k, keyPrefix)

ClearedGroup(p) == proc[p].op = "clearGroup" /\ proc[p].pc = "done" /\ proc[p].res = "ok"

\* No entry of the namespace is left in the group a resolved clearGroup
\* was called with.
GroupGone ==
    \A p \in DOMAIN proc :
        ClearedGroup(p) =>
            \A k \in DOMAIN storage :
                InNamespace(k) => storage[k].groupKey # proc[p].groupArg[1]

\* A step taken while clearGroup(g) is in progress leaves every entry of
\* another group in place, with the same value, expires, type and groupKey.
OthersKept ==
    \A p \in DOMAIN proc :
        proc[p].op = "clearGroup" =>
            \A k \in DOMAIN storage :
                storage[k].groupKey # proc[p].groupArg[1] =>
                    k \in DOMAIN storage' /\ storage'[k] = storage[k]

\* C20: group isolation: once clearGroup(g) has resolved, with no other
\* operation running, no entry of the namespace has groupKey g, and every
\* entry of another group (the default group "none" included) is still
\* present with unchanged value, expires, type and groupKey.
C20_GroupIsolation == []GroupGone /\ [][OthersKept]_vars


\* ------------------------------------------------------------------ C30
\* The calls that take one caller key.
KeyedOps == {"saveItem", "removeItem", "getRawItem", "itemExists"}

KeyedCall(p) == proc[p].op \in KeyedOps /\ proc[p].key # <<>>

\* C30: key codec algebra: for the key k of every call and the configured
\* prefix, buildKey(buildKey(k)) = buildKey(k), debuildKey(debuildKey(k)) =
\* debuildKey(k) and debuildKey(buildKey(k)) = k, and k addresses no record
\* that the same instance wrote under a different caller key.
C30_KeyCodecAlgebra ==
    \A p \in DOMAIN proc :
        KeyedCall(p) =>
            LET k == proc[p].key
                b == buildKey(keyPrefix, k)
                d == debuildKey(keyPrefix, k)
            IN  /\ buildKey(keyPrefix, b) = b
                /\ debuildKey(keyPrefix, d) = d
                /\ debuildKey(keyPrefix, b) = k
                /\ \A x \in DOMAIN written :
                      (written[x].by = keyPrefix /\ written[x].key # k) => x # b


\* ------------------------------------------------------------------ C21
\* A record that a cache instance with another key prefix wrote.
OfOther(k) == k \in DOMAIN written /\ written[k].by # keyPrefix

\* all() of the running instance is about to list the record at k.
Listed(k) == k \in DOMAIN storage /\ isCachedItem(keyPrefix, k, storage[k])

\* No enumeration of one instance lists a record of the other, and no keyed
\* read of one instance finds a record of the other.
NoForeignRead ==
    \A p \in DOMAIN proc :
        /\ proc[p].pc = "all" => \A k \in DOMAIN storage : Listed(k) => ~OfOther(k)
        /\ (KeyedCall(p) /\ proc[p].pc \in {"get", "exists"}) =>
              ~OfOther(buildKey(keyPrefix, proc[p].key))

\* No step of one instance removes or overwrites a record of the other.
NoForeignWrite ==
    \A k \in DOMAIN storage :
        OfOther(k) => k \in DOMAIN storage' /\ storage'[k] = storage[k]

\* C21: namespace isolation: for cache instances over the same store with
\* different key prefixes (one may be empty or a prefix of the other),
\* all()/getRawItems() of one never returns an entry written by the other,
\* the bulk removals of one never remove an entry of the other, and no key
\* of one reads or overwrites a record of the other.
C21_NamespaceIsolation == []NoForeignRead /\ [][NoForeignWrite]_vars


\* ------------------------------------------------------------------ C22
\* The glob reading of a pattern: "*" stands for any sequence of
\* characters, possibly empty, and every other character for itself.
RECURSIVE globMatch(_, _)
globMatch(pattern, key) ==
    IF pattern = <<>> THEN key = <<>>
    ELSE IF Head(pattern) = "*"
         THEN \E i \in 0..Len(key) : globMatch(Tail(pattern), SubSeq(key, i + 1, Len(key)))
         ELSE /\ key # <<>>
              /\ Head(pattern) = Head(key)
              /\ globMatch(Tail(pattern), Tail(key))

RemovedPattern(p) ==
    proc[p].op = "removeItems" /\ proc[p].pc = "done" /\ proc[p].res = "ok"

\* After removeItems(pattern) has resolved no entry is left whose caller
\* key matches the pattern as a glob.
MatchingGone ==
    \A p \in DOMAIN proc :
        RemovedPattern(p) =>
            \A k \in DOMAIN written : ~globMatch(proc[p].key, written[k].key)

\* A step of removeItems(pattern) leaves every entry in place whose caller
\* key does not match the pattern as a glob.
OthersUntouched ==
    \A p \in DOMAIN proc :
        proc[p].op = "removeItems" =>
            \A k \in DOMAIN written :
                ~globMatch(proc[p].key, written[k].key) =>
                    k \in DOMAIN storage' /\ storage'[k] = storage[k]

\* C22: removeItems glob semantics: removeItems(pattern) removes exactly
\* the entries whose caller key matches the pattern as a whole, where "*"
\* matches any sequence of characters and every other character only
\* itself, and leaves all other entries unchanged.
C22_GlobSemantics == []MatchingGone /\ [][OthersUntouched]_vars


\* ------------------------------------------------------------------ C23
\* A clearExpired call that found the cache enabled.
Pruning(p) == proc[p].op = "clearExpired" /\ proc[p].gate

\* Called offline without ignoreOnlineStatus, clearExpired has failed with
\* the offline message before calling the storage adapter; called with
\* ignoreOnlineStatus it does not fail, and once it has resolved no entry
\* with a type tag is left whose expires was before the time it looked.
OfflinePolicy ==
    \A p \in DOMAIN proc :
        Pruning(p) =>
            /\ (~proc[p].onlineAt /\ ~proc[p].ignoreArg) =>
                  (proc[p].pc = "done" /\ proc[p].res = browserOffline /\ ~proc[p].touched)
            /\ proc[p].ignoreArg =>
                  /\ proc[p].res \in {"", "ok"}
                  /\ proc[p].pc = "done" =>
                        \A k \in DOMAIN storage :
                            storage[k].type # "" => ~(storage[k].expires < proc[p].checkedAt)

\* A step of a clearExpired call that failed with the offline message
\* leaves the store as it is.
RefusedKeepsStore ==
    \A p \in DOMAIN proc :
        (Pruning(p) /\ proc[p].res = browserOffline) => storage' = storage

\* C23: clearExpired offline policy: with the cache enabled, the device
\* offline and ignoreOnlineStatus false, clearExpired fails with "No entries
\* were deleted, because browser is offline." and the store is unchanged;
\* with ignoreOnlineStatus true it proceeds and prunes whatever the online
\* status.
C23_OfflinePolicy == []OfflinePolicy /\ [][RefusedKeepsStore]_vars

\* clearExpired() has been refused offline while an expired entry is stored.
C23_RefusedWithExpiredEntry ==
    \E p \in DOMAIN proc :
        /\ Pruning(p)
        /\ proc[p].res = browserOffline
        /\ \E k \in DOMAIN storage : storage[k].type # "" /\ storage[k].expires < now


\* ------------------------------------------------------------------ C24
Pruned(p) == Pruning(p) /\ proc[p].pc = "done" /\ proc[p].res = "ok"

\* After clearExpired has resolved no entry is left whose expires was
\* before the time clearExpired read the clock.
ExpiredGone ==
    \A p \in DOMAIN proc :
        Pruned(p) => \A k \in DOMAIN storage : ~(storage[k].expires < proc[p].checkedAt)

\* A step of clearExpired removes or changes no entry that has not expired.
UnexpiredKept ==
    \A p \in DOMAIN proc :
        Pruning(p) =>
            \A k \in DOMAIN storage :
                ~(storage[k].expires < now) =>
                    k \in DOMAIN storage' /\ storage'[k] = storage[k]

\* A getItem called online right after clearExpired, at the same time on
\* the clock, does not fail with the expired message.
NoExpiredReadAfter ==
    \A p \in DOMAIN proc :
        (Pruned(p) /\ proc[p].checkedAt = now /\ online) =>
            \A k \in GroupKeys :
                adapterFound(storage, keyPrefix, k) =>
                    ~isExpired(adapterGet(storage, keyPrefix, k), now,
                               invalidateOffline, isOnline)

\* C24: clearExpired selection: when it proceeds with no other operation
\* running, clearExpired removes exactly the entries whose expires is
\* strictly less than the current time and keeps every other entry
\* unchanged, so that right after it a getItem called online fails with the
\* expired message for no key that still exists.
C24_ExpiredSelection == [](ExpiredGone /\ NoExpiredReadAfter) /\ [][UnexpiredKept]_vars


\* ------------------------------------------------------------------ C25
ClearedAll(p) == proc[p].op = "clearAll" /\ proc[p].pc = "done" /\ proc[p].res = "ok"

\* C25: clearAll empties the namespace: once clearAll() has resolved, with
\* the cache enabled and no write since, itemExists(k) is false and
\* getRawItem(k) fails with "No such key" for every key saved before,
\* whatever the type of its value, and getRawItems() is empty.
C25_ClearAllEmpties ==
    \A p \in DOMAIN proc :
        ClearedAll(p) =>
            /\ \A k \in GroupKeys : ~adapterFound(storage, keyPrefix, k)
            /\ adapterAll(storage, keyPrefix) = {}


\* ------------------------------------------------------------------ C26
UnprefixedClear(p) == ClearedAll(p) /\ keyPrefix = <<>>

NonItemsKept ==
    \A p \in DOMAIN proc :
        proc[p].op = "clearAll" =>
            \A k \in DOMAIN storage :
                (storage[k].expires = 0 \/ storage[k].type = "") =>
                    k \in DOMAIN storage' /\ storage'[k] = storage[k]

ExpiredStored(k) == k \in DOMAIN storage /\ storage[k].expires < now

\* C27: startup pruning: constructing the service eventually removes from
\* the store every entry whose expiry time has already passed, without the
\* caller invoking clearExpired.
C27_StartupPrunes ==
    \A k \in {buildKey(Prefix, x) : x \in GroupKeys} :
        (loadCachePc = "create" /\ ExpiredStored(k)) ~> ~ExpiredStored(k)


\* ------------------------------------------------------------------ C28
\* A raw read that found the cache enabled and has got its answer.
RawRead(p, name) == proc[p].op = name /\ proc[p].gate /\ proc[p].pc = "done"

StoredFor(p) == buildKey(keyPrefix, proc[p].key) \in DOMAIN storage

\* C28: raw views ignore expiration: with the cache enabled, getRawItem(key)
\* resolves with the stored entry and itemExists(key) resolves true exactly
\* when a record exists for the key, expired or not, online or offline;
\* when none exists getRawItem fails with "No such key: " and itemExists
\* resolves false.
C28_RawViews ==
    \A p \in DOMAIN proc :
        /\ RawRead(p, "getRawItem") =>
              IF StoredFor(p)
              THEN /\ proc[p].res = "ok"
                   /\ proc[p].raw = WithKey(proc[p].key,
                                            storage[buildKey(keyPrefix, proc[p].key)])
              ELSE proc[p].res = notFound
        /\ RawRead(p, "itemExists") =>
              /\ proc[p].res = "ok"
              /\ proc[p].exists = StoredFor(p)

\* getRawItem has resolved offline with an entry that had expired.
C28_ExpiredRawRead ==
    \E p \in DOMAIN proc :
        /\ RawRead(p, "getRawItem")
        /\ proc[p].res = "ok"
        /\ proc[p].raw.expires < now
        /\ ~online


\* ------------------------------------------------------------------ C29
GetOrSet(p) == proc[p].op = "getOrSetItem"

\* getItem inside getOrSetItem succeeded: the entry was found with the
\* cache enabled and passed the expiry test, and its decoded value is the
\* result.
ServedFromCache(p) ==
    /\ proc[p].res = "ok"
    /\ proc[p].gate
    /\ proc[p].found
    /\ ~isExpired(proc[p].raw, proc[p].checkedAt, proc[p].flagAt, proc[p].onlineAt)
    /\ proc[p].out = decodeRawData(proc[p].raw)

\* The factory's result is stored under the key with the given groupKey
\* and ttl, and is the result of the call.
ServedFromFactory(p) ==
    LET k == buildKey(keyPrefix, proc[p].key)
    IN  /\ proc[p].res = "ok"
        /\ proc[p].out = proc[p].data
        /\ k \in DOMAIN storage
        /\ storage[k].value = encodeValue(proc[p].data)
        /\ storage[k].type = typeTag(proc[p].data)
        /\ storage[k].groupKey = ArgOr(proc[p].groupArg, "none")
        /\ storage[k].expires = proc[p].stamp.at + proc[p].stamp.ttl * MsPerSec
        /\ proc[p].ttlArg # Omitted => proc[p].stamp.ttl = proc[p].ttlArg[1]

\* A getOrSetItem call writes to the store only when it saves the result
\* of its factory.
WritesOnlyFactoryResult ==
    \A p \in DOMAIN proc :
        (GetOrSet(p) /\ storage' # storage) =>
            (proc[p].fcalls = 1 /\ proc[p].pc = "set" /\ proc'[p].res = "ok")

\* Ways a save can fail that are not the factory's failure.
StorageFailures == {"blob conversion failed"}

\* A settled getOrSetItem either did not invoke the factory and returns the
\* value of a successful getItem, or invoked it once.
FactoryAtMostOnce(p) ==
    /\ proc[p].fcalls <= 1
    /\ proc[p].fcalls = 0 => ServedFromCache(p)

\* C29: getOrSetItem: if getItem succeeds its value is returned, the factory
\* is not invoked and nothing is written; if getItem fails for any reason
\* (not found, expired or disabled) the factory is invoked exactly once and
\* its result is stored with the given groupKey and ttl and returned; if
\* the factory fails the failure goes to the caller and nothing is written.
C29_GetOrSet ==
    /\ [](\A p \in DOMAIN proc :
            (GetOrSet(p) /\ proc[p].pc = "done") =>
                /\ FactoryAtMostOnce(p)
                /\ proc[p].fcalls = 1 =>
                      \/ ServedFromFactory(p)
                      \/ proc[p].res \in {"factory failed"} \cup StorageFailures)
    /\ [][WritesOnlyFactoryResult]_vars


\* ------------------------------------------------------------------ C31
\* The entries the running instance saved and that are still stored, by
\* physical key.
OwnEntries == {k \in DOMAIN written : written[k].by = keyPrefix}

\* C31: callers only see their own keys: getRawItem(k) returns a record
\* whose key field is k, getRawItems() returns every saved entry under the
\* key it was saved with, and removeItems with a pattern that matches a
\* saved key removes that entry.
C31_CallerKeys ==
    \A p \in DOMAIN proc :
        proc[p].pc = "done" /\ proc[p].res = "ok" =>
            /\ proc[p].op = "getRawItem" => proc[p].raw.key = proc[p].key
            /\ proc[p].op = "getRawItems" =>
                  \A k \in OwnEntries :
                      WithKey(written[k].key, storage[k]) \in proc[p].items
            /\ proc[p].op = "removeItems" =>
                  \A k \in OwnEntries : ~globMatch(proc[p].key, written[k].key)


\* ------------------------------------------------------------------ C32
\* Both saveItem calls have resolved; caller 2 called later than caller 1.
BothSaved ==
    \A p \in {1, 2} :
        proc[p].op = "saveItem" /\ proc[p].pc = "done" /\ proc[p].res = "ok"

EnvelopeOf(p) == Envelope(proc[p].item)

StoredAt(p) == storage[buildKey(keyPrefix, proc[p].key)]

\* C32: last write wins without merge: once two saveItem calls on the same
\* key have both resolved, the stored entry is the envelope of the call
\* that was issued later, whatever the interleaving of their storage steps
\* and also when one of the values is a Blob.
C32_LaterCallWins == BothSaved => StoredAt(2) = EnvelopeOf(2)

\* The write of a saveItem call replaces the record under its key by the
\* call's envelope and touches no other record.
WriteReplaces ==
    \A p \in DOMAIN proc :
        (proc[p].op = "saveItem" /\ proc[p].pc = "set" /\ proc'[p].pc = "done") =>
            storage' = storageSet(storage, buildKey(keyPrefix, proc[p].key), EnvelopeOf(p))

\* C32 as the code has it: once both calls have resolved the stored entry
\* is exactly the envelope of one of them, the one whose cacheStorage.set
\* reached the store last, which need not be the call issued later.
C32_LastWriteWins ==
    /\ [](BothSaved => StoredAt(1) \in {EnvelopeOf(1), EnvelopeOf(2)})
    /\ [][WriteReplaces]_vars

\* A Blob was saved first and a string later, both calls have resolved, and
\* the stored entry is the Blob's.
C32_EarlierBlobWins ==
    /\ BothSaved
    /\ proc[1].data.cls = "Blob"
    /\ proc[2].data.cls # "Blob"
    /\ EnvelopeOf(1) # EnvelopeOf(2)
    /\ StoredAt(1) = EnvelopeOf(1)


\* ------------------------------------------------------------------ C33
Saving(call) == call.pc \in {"set", "convertBlob"}

\* saveItem is entered by caller p itself (saveItem, or getOrSetItem after
\* its factory) with the expires that the ttl argument or else the present
\* default ttl gives.
StampedByCall ==
    \A p \in DOMAIN proc :
        (Saving(proc'[p]) /\ ~Saving(proc[p])) =>
            proc'[p].item.expires = now + ArgOr(proc'[p].ttlArg, ttl) * MsPerSec

\* A save issued by a loader has the expires that the ttl argument of the
\* loader or else the default ttl `dflt(p)` gives.
StampedByLoader(dflt(_)) ==
    \A c \in bg' \ bg :
        \E p \in DOMAIN proc :
            /\ proc[p].op \in Loaders
            /\ c.key = proc[p].key
            /\ c.item.expires =
                  now + ArgOr(IF proc[p].op = "loadFromObservable"
                              THEN proc[p].ttlArg ELSE stream[p].ttlGiven,
                              dflt(p)) * MsPerSec

\* What reaches the store is the expires the save was entered with.
StoredAsStamped ==
    \A k \in DOMAIN storage' :
        (k \notin DOMAIN storage \/ storage'[k] # storage[k]) =>
            storage'[k].expires = written'[k].at + written'[k].ttl * MsPerSec

PresentDefault(p) == ttl

\* The default ttl at the time the loader was called, which
\* loadFromDelayedObservable takes as its ttl when none is given.
DefaultAtCall(p) ==
    IF proc[p].op = "loadFromDelayedObservable" THEN proc[p].ttlArg[1] ELSE ttl

\* An entry that was saved with a ttl of zero or less.
ReadNonPositive(p) == GotEntry(p) /\ proc[p].onlineAt /\ proc[p].read.ttl <= 0

\* C33: expiry stamp invariant: every entry written by saveItem, directly
\* or through getOrSetItem, loadFromObservable or
\* loadFromDelayedObservable, has expires = time of the save + ttl * 1000
\* with the explicit ttl or else the default ttl last set; an entry saved
\* with a zero or negative ttl is expired for every online getItem at or
\* after the save.
C33_ExpiryStamp ==
    /\ [][StampedByCall /\ StampedByLoader(PresentDefault) /\ StoredAsStamped]_vars
    /\ [](\A p \in DOMAIN proc : ReadNonPositive(p) => proc[p].res = expired)

\* C33 as the code has it: the default ttl is the one in force when
\* saveItem is entered, except that loadFromDelayedObservable uses the one
\* in force when it was called; an entry saved with a negative ttl is
\* expired at once, one saved with ttl zero from the first millisecond
\* after the save.
C33_ExpiryStampAtCall ==
    /\ [][StampedByCall /\ StampedByLoader(DefaultAtCall) /\ StoredAsStamped]_vars
    /\ [](\A p \in DOMAIN proc :
            ReadNonPositive(p) =>
                (proc[p].res = expired) =
                    (proc[p].read.ttl < 0 \/ proc[p].checkedAt > proc[p].read.at))

\* An online getItem in the millisecond of a save with ttl zero has
\* resolved with the value.
C33_ZeroTTLReadAtOnce ==
    \E p \in DOMAIN proc :
        /\ ReadNonPositive(p)
        /\ proc[p].read.ttl = 0
        /\ proc[p].checkedAt = proc[p].read.at
        /\ proc[p].res = "ok"


\* ------------------------------------------------------------------ C34
ReadOps == {"getItem", "getRawItem", "getRawItems", "itemExists"}

\* No step of a read, its call included, changes the store.
ReadKeepsStore ==
    \A p \in DOMAIN proc :
        (proc[p].op \in ReadOps \/ proc'[p].op \in ReadOps) => storage' = storage

\* The entry a getItem found expired is still stored.
ExpiredStaysStored ==
    \A p \in DOMAIN proc :
        (GotEntry(p) /\ proc[p].res = expired) =>
            /\ StoredFor(p)
            /\ WithKey(proc[p].key, storage[buildKey(keyPrefix, proc[p].key)]) = proc[p].raw

\* C34: reads are non-destructive: getItem, getRawItem, getRawItems and
\* itemExists never add, change or remove a record of the store, whether
\* they succeed or fail; a getItem that fails with Expired leaves the
\* expired entry in place.
C34_ReadsKeepStore == []ExpiredStaysStored /\ [][ReadKeepsStore]_vars

\* A getItem has failed with Expired and its entry is still stored.
C34_ExpiredEntryKept ==
    \E p \in DOMAIN proc :
        GotEntry(p) /\ proc[p].res = expired /\ StoredFor(p)


\* ------------------------------------------------------------------- C35
\* The emissions of es that were taken from tag.
FromTag(es, tag) == {i \in 1..Len(es) : es[i].from = tag}

\* What the Subject of the call of p has emitted: at most two values, at
\* most one from the cache and at most one from the source, the cached one
\* first; and the consumer has received nothing else.
EmissionShape(p) ==
    LET es == stream[p].emitted
    IN  /\ Len(es) <= 2
        /\ Cardinality(FromTag(es, "cache")) <= 1
        /\ Cardinality(FromTag(es, "source")) <= 1
        /\ \A i \in FromTag(es, "source"), j \in FromTag(es, "cache") : j < i
        /\ Len(stream[p].received) <= Len(es)
        /\ \A i \in 1..Len(stream[p].received) :
              \E j \in 1..Len(es) : es[j] = stream[p].received[i]

\* Once the Subject of a call has completed or failed, that call's stream
\* emits nothing more.
SilentAfterEnd ==
    \A p \in DOMAIN proc :
        (Delayed(p) /\ stream[p].subject # "open" /\ stream'[p].ret = "subject") =>
            /\ stream'[p].emitted = stream[p].emitted
            /\ stream'[p].received = stream[p].received
            /\ stream'[p].subject = stream[p].subject

\* C35: the stream loadFromDelayedObservable returns emits at most two
\* values, at most one taken from the cache and at most one from the
\* source however many the source emits, the cached one before the
\* source's, and nothing after it has completed or failed.
C35_EmissionInvariant ==
    /\ [](\A p \in DOMAIN proc : Delayed(p) => EmissionShape(p))
    /\ [][SilentAfterEnd]_vars

\* C35 witness: a source that emitted two values after an entry was found:
\* the stream has emitted the cached value, then the first value of the
\* source, and has completed.
C35_SecondSourceValueDropped ==
    \E p \in DOMAIN proc :
        /\ Delayed(p)
        /\ stream[p].pos = 2
        /\ Len(stream[p].emitted) = 2
        /\ stream[p].emitted[1].from = "cache"
        /\ stream[p].emitted[2] = Emission("source", stream[p].src.vals[1])
        /\ stream[p].subject = "complete"


\* ------------------------------------------------------------------- C36
\* The lookup of the call of p has settled.
LookedUp(p) == proc[p].pc \notin {"lfdoGet", "lfdoRaw"}

\* What the call of p has done by itself, whether or not a consumer has
\* subscribed: the lookup was started by the call; once it has settled the
\* source has been subscribed unless an unexpired entry was served with
\* delayType 'expired'; and a value of the source has met a saveItem.
RunsUnobserved(p) ==
    /\ proc[p].touched
    /\ ~LookedUp(p) => stream[p].execs = 0 /\ stream[p].emitted = <<>>
    /\ LookedUp(p) =>
          stream[p].execs = IF proc[p].res = "ok" /\ stream[p].delayType # "all"
                            THEN 0 ELSE 1
    /\ stream[p].pos >= 1 => stream[p].saves >= 1 \/ stream[p].saveThrew

\* What q holds after its first Len(r) elements.
Added(r, q) == SubSeq(q, Len(r) + 1, Len(q))

\* One step of a call's Subject: a subscribed consumer receives exactly
\* what the Subject emits in the step; a consumer that subscribes in the
\* step, or has not subscribed, receives nothing of what was emitted.
Relays ==
    \A p \in DOMAIN proc :
        (Delayed(p) /\ stream'[p].ret = "subject") =>
            /\ IsPrefix(stream[p].emitted, stream'[p].emitted)
            /\ IF stream[p].subscribed
               THEN /\ IsPrefix(stream[p].received, stream'[p].received)
                    /\ Added(stream[p].received, stream'[p].received)
                          = Added(stream[p].emitted, stream'[p].emitted)
               ELSE /\ stream'[p].received = <<>>
                    /\ stream'[p].subscribed => stream'[p].emitted = stream[p].emitted

\* C36: loadFromDelayedObservable does its lookup, its subscription to the
\* source and its save from the call on, subscribed to or not; a consumer
\* subscribed from the call on receives every emission, and one that
\* subscribes later receives none of the emissions made before.
C36_EagerNoReplay ==
    /\ [](\A p \in DOMAIN proc : Delayed(p) => RunsUnobserved(p))
    /\ [][Relays]_vars

\* C36 witness: a call nobody had subscribed to has fetched, saved and
\* emitted the source's value and completed; the consumer that subscribed
\* afterwards has received the completion and no value.
C36_LateSubscriberMissesValue ==
    \E p \in DOMAIN proc :
        /\ Delayed(p)
        /\ stream[p].execs = 1
        /\ stream[p].saves = 1
        /\ stream[p].emitted # <<>>
        /\ stream[p].subscribed
        /\ stream[p].received = <<>>
        /\ stream[p].ended = "complete"


\* ------------------------------------------------------------------- C37
\* The stored keys a step removes.
Deleted == DOMAIN storage \ DOMAIN storage'

\* A removal of clearExpired deletes only an entry that is expired at that
\* moment, one of clearGroup(g) only an entry that is in group g then.
DeletesOnlySelected ==
    \A p \in DOMAIN proc :
        (proc[p].pc = "remove" /\ proc'[p].pend # proc[p].pend) =>
            \A k \in Deleted :
                /\ proc[p].op = "clearExpired" => storage[k].expires < now
                /\ proc[p].op = "clearGroup" =>
                      storage[k].groupKey = proc[p].groupArg[1]

\* C37: when saveItem calls interleave between the enumeration and the
\* removals of clearExpired or clearGroup(g), no removal deletes an entry
\* that is unexpired then (clearExpired) or in another group than g then
\* (clearGroup).
C37_BulkRemovalSpares == [][DeletesOnlySelected]_vars


\* ------------------------------------------------------------------- C38
\* The calls of p and q are getOrSetItem calls on one key.
Twins(p, q) ==
    /\ p # q
    /\ GetOrSet(p) /\ GetOrSet(q)
    /\ proc[p].key = proc[q].key

\* The call of p has resolved.
Resolved(p) == proc[p].pc = "done" /\ proc[p].res = "ok"

\* C38: of two getOrSetItem calls on one key that run at overlapping
\* times, at most one invokes its factory, and when both have resolved
\* they have resolved with the same value, which is the stored one.
C38_SingleFlight ==
    \A p, q \in DOMAIN proc :
        Twins(p, q) =>
            /\ proc[p].fcalls + proc[q].fcalls <= 1
            /\ (Resolved(p) /\ Resolved(q)) =>
                  /\ proc[p].out = proc[q].out
                  /\ StoredFor(p)
                  /\ decodeRawData(storage[buildKey(keyPrefix, proc[p].key)])
                        = proc[p].out


\* ------------------------------------------------------------------- C39
\* The Subject of a loadFromDelayedObservable call is open.
StreamOpen == \E p \in DOMAIN proc : Delayed(p) /\ stream[p].subject = "open"

\* C39: when every storage operation settles and the subscribed source
\* emits, completes or fails, the stream loadFromDelayedObservable returned
\* completes or fails in the end, also when the cache is disabled while
\* the call is in progress.
C39_StreamTerminates == StreamOpen ~> ~StreamOpen


\* ------------------------------------------------------------------- C40
\* The caller's last enableCache call, made after an enableCache(false),
\* was enableCache(true).
ExplicitlyOn == hist.reenabled /\ ~hist.off

\* The caller's last enableCache call was enableCache(false).
ExplicitlyOff == hist.off

\* A step that turns the switch against the caller's last enableCache call
\* is itself an enableCache call of the caller.
SwitchIsCallers ==
    /\ (ExplicitlyOn /\ cacheEnabled /\ ~cacheEnabled') => hist'.off
    /\ (ExplicitlyOff /\ ~cacheEnabled /\ cacheEnabled') => ~hist'.off

\* C40: after the caller's enableCache(true) the service never sets
\* cacheEnabled to false by itself, also when cacheStorage.create() rejects
\* afterwards; after enableCache(false) it never sets it to true by itself.
C40_ExplicitSwitchKept == [][SwitchIsCallers]_vars
====
